---- MODULE Spec2Model ----
(***************************************************************************)
(* FlyteDirectory (flytekit/types/directory/types.py): the lazy directory  *)
(* handle, its __fspath__ download trigger, and the transformer            *)
(* FlyteDirToMultipartBlobTransformer that converts between handles or     *)
(* plain paths and MULTIPART blob literals.                                 *)
(*                                                                         *)
(* One caller drives the program: a call is started only when the previous *)
(* one has returned or raised.  The storage client (ctx.file_access) is an *)
(* external collaborator: a transfer it is asked for either completes or   *)
(* raises, which the two "Returns"/"Raises" actions model.                  *)
(***************************************************************************)
EXTENDS Integers, Sequences, FiniteSets, TLC

(***************************************************************************)
(* Bounds of the model.                                                    *)
(***************************************************************************)
\* FlyteDirectory objects that are ever created in one behaviour
MaxHandles == 1
\* invocations of one handle's downloader (only a failing downloader is re-invoked)
MaxInvocations == 2

(***************************************************************************)
(* Path strings.  A path string is kept as its protocol, its text after    *)
(* the protocol, and a serial number that tells random paths apart.        *)
(***************************************************************************)
PathStr(proto, name, n) == [proto |-> proto, name |-> name, n |-> n]

NoPath    == PathStr("none", "", 0)
EmptyStr  == PathStr("file", "", 0)
LocalDir  == PathStr("file", "/tmp/mydir", 0)      \* an existing local directory
NotADir   == PathStr("file", "/tmp/notadir", 0)    \* a local path that is no directory
LocalDest == PathStr("file", "/mnt/out", 0)        \* a destination given as a path object
RemoteSrc == PathStr("s3", "bucket/x", 0)          \* s3://bucket/x
RemoteDst == PathStr("flyte", "dest/y", 0)         \* flyte://dest/y, an explicit destination

\* ctx.user_space_params.working_directory
WorkDir         == PathStr("file", "/work", 0)
\* the context's local sandbox, in which the random local paths lie
LocalSandbox    == PathStr("file", "/tmp/flyte", 0)
RandomLocal(k)  == PathStr("file", "/tmp/flyte/local", k)
RandomRemote    == PathStr("flyte", "raw-output/random", 0)

\* os.path.join(p, name)
Join(p, name) == PathStr(p.proto, p.name \o "/" \o name, p.n)

(***************************************************************************)
(* Directory trees.  The content of a directory is the set of its files,   *)
(* each with its path relative to the directory (a sequence of names) and  *)
(* its data.                                                               *)
(***************************************************************************)
File(rel, data) == [rel |-> rel, data |-> data]

\* what LocalDir holds at first, and what user code may rewrite it to
TreeD  == {File(<<"a.txt">>, "1"), File(<<"sub", "b.txt">>, "2")}
TreeD2 == {File(<<"a.txt">>, "3"), File(<<"sub", "b.txt">>, "2"), File(<<"sub", "c.txt">>, "4")}
\* what s3://bucket/x holds
TreeX  == {File(<<"a.txt">>, "x"), File(<<"sub", "b.txt">>, "y")}

\* what the working directory holds before the task runs
TreeW  == {File(<<"notes.txt">>, "n"), File(<<"cache", "x.bin">>, "c")}

\* names of the files and of the directories directly inside a tree
FileNames(t)   == {f.rel[1] : f \in {g \in t : Len(g.rel) = 1}}
SubdirNames(t) == {f.rel[1] : f \in {g \in t : Len(g.rel) > 1}}

\* the tree of the directory `name` inside t
Subtree(t, name) ==
  {File(Tail(f.rel), f.data) : f \in {g \in t : Len(g.rel) > 1 /\ g.rel[1] = name}}

\* the directories that exist once tree t is at path p
DirsUnder(p, t) == {p} \cup {Join(p, name) : name \in SubdirNames(t)}

(***************************************************************************)
(* Python values that reach the code as a path, a remote_directory or a    *)
(* python_val: None, False, a str, a pathlib.Path, another os.PathLike, or *)
(* a FlyteDirectory (by its index h in handles).                           *)
(***************************************************************************)
PyNone        == [ty |-> "NoneType", s |-> NoPath, h |-> 0]
PyFalse       == [ty |-> "bool", s |-> NoPath, h |-> 0]
PyStr(p)      == [ty |-> "str", s |-> p, h |-> 0]
PyPath(p)     == [ty |-> "Path", s |-> p, h |-> 0]
PyPathLike(p) == [ty |-> "PathLike", s |-> p, h |-> 0]
PyDir(i)      == [ty |-> "FlyteDirectory", s |-> NoPath, h |-> i]

\* isinstance(v, (pathlib.Path, str))
IsPathOrStr(v) == v.ty \in {"Path", "str"}

\* str(v) of a str or a path object: its text
Str(v) == v.s

\* bool(v), as `v or None` evaluates it: None, False and "" are falsy
Truthy(v) ==
  CASE v.ty = "NoneType" -> FALSE
    [] v.ty = "bool"     -> FALSE
    [] v.ty = "str"      -> v.s # EmptyStr
    [] OTHER             -> TRUE

(***************************************************************************)
(* Downloaders and handles.                                                *)
(***************************************************************************)
\* A downloader is a callable: `coroutine` tells whether the function behind it
\* is a coroutine function, `partial` whether it is wrapped in functools.partial.
\* def noop(): ...
noop == [fn |-> "noop", src |-> NoPath, dst |-> NoPath, is_multipart |-> FALSE,
         coroutine |-> FALSE, partial |-> FALSE]

\* the single-file downloader of FlyteFile in place of the directory one
GetDataPartial_SingleFile(uri, local_folder, multipart) ==
  [fn |-> "get_data", src |-> uri, dst |-> local_folder, is_multipart |-> FALSE,
   coroutine |-> FALSE, partial |-> TRUE]

\* partial(ctx.file_access.get_data, uri, local_folder, is_multipart=True, ...)
GetDataPartial(uri, local_folder, multipart) ==
  [fn |-> "get_data", src |-> uri, dst |-> local_folder, is_multipart |-> multipart,
   coroutine |-> FALSE, partial |-> TRUE]

\* FlyteDirectory.__init__, in the class whose extension() is ext
FlyteDirectoryInit(path, downloader, remote_directory, ext) ==
  [ path             |-> path,
    downloader       |-> IF downloader = PyNone THEN noop ELSE downloader,
    downloaded       |-> FALSE,
    remote_directory |-> remote_directory,
    remote_source    |-> PyNone,
    ext              |-> ext,
    cls              |-> "FlyteDirectory" ]

\* FlyteFile(path, downloader): the file handle that listdir returns for a file
FlyteFileInit(path, downloader) ==
  [FlyteDirectoryInit(path, downloader, PyNone, "") EXCEPT !.cls = "FlyteFile"]

NullHandle == FlyteDirectoryInit(PyNone, PyNone, PyNone, "")

(***************************************************************************)
(* Literals.                                                               *)
(***************************************************************************)
MESSAGEPACK == "msgpack"

\* Literal(scalar=Scalar(blob=Blob(metadata=BlobMetadata(type=BlobType(format, dim)), uri)))
BlobLiteral(uri, format, dim) ==
  [kind |-> "blob", uri |-> uri, format |-> format, dimensionality |-> dim,
   tag |-> "", has_path |-> FALSE]

\* Literal(scalar=Scalar(binary=Binary(value=packed {"path": uri} or {}, tag)))
BinaryLiteral(tag, has_path, uri) ==
  [kind |-> "binary", uri |-> uri, format |-> "", dimensionality |-> "",
   tag |-> tag, has_path |-> has_path]

\* Literal(scalar=Scalar(generic=Struct {"path": uri} or {}))
GenericLiteral(has_path, uri) ==
  [kind |-> "generic", uri |-> uri, format |-> "", dimensionality |-> "",
   tag |-> "", has_path |-> has_path]

\* a literal that carries no blob, no binary and no generic payload
OtherLiteral ==
  [kind |-> "other", uri |-> NoPath, format |-> "", dimensionality |-> "",
   tag |-> "", has_path |-> FALSE]

NullLiteral ==
  [kind |-> "null", uri |-> NoPath, format |-> "", dimensionality |-> "",
   tag |-> "", has_path |-> FALSE]

(***************************************************************************)
(* Calls on the storage client and the local filesystem that one operation *)
(* makes, in order.                                                        *)
(***************************************************************************)
\* result: "ok", or for a transfer "pending" until it ends "ok" or "raised"
IoEvent(fn, a, b, multipart, result) ==
  [fn |-> fn, a |-> a, b |-> b, is_multipart |-> multipart, result |-> result]

\* the last call of io has ended with `result`
Ended(io, result) == [io EXCEPT ![Len(io)].result = result]

IoNamed(io, fn) == {i \in 1..Len(io) : io[i].fn = fn}

Transfers(io) == IoNamed(io, "put_data") \cup IoNamed(io, "get_data")

(***************************************************************************)
(* State.                                                                  *)
(***************************************************************************)
VARIABLES
  handles,   \* the FlyteDirectory objects created so far, in creation order
  obs,       \* per handle: downloader invocations started and completed, paths returned
  dirs,      \* the local paths that are existing directories
  store,     \* the tree at each local or remote path where one was put
  nlocal,    \* random local directories handed out so far
  call,      \* the call in progress, or the most recent one
  threads,   \* per thread: its __fspath__ call on a handle shared between threads
  environ,   \* os.environ of the process that executes a task
  resource_meta  \* the AirflowMetadata the connector's caller holds between create and get

vars == <<handles, obs, dirs, store, nlocal, call, threads, environ, resource_meta>>

\* the state that the single caller's calls on the directory type leave alone
outside == <<threads, environ, resource_meta>>

Frame(op) ==
  [ op            |-> op,
    pc            |-> "done",       \* "await_download", "await_put", "done"
    arg           |-> PyNone,       \* python_val, or the handle __fspath__ is called on
    lit           |-> NullLiteral,  \* the literal given to to_python_value
    ext           |-> "",           \* extension() of python_type / expected_python_type
    local         |-> FALSE,        \* ctx.execution_state.is_local_execution()
    source_path   |-> NoPath,
    should_upload |-> FALSE,
    dest          |-> PyNone,       \* remote_directory handed to put_data
    outcome       |-> "none",       \* "return" or "raise" once pc = "done"
    err           |-> "",
    ret_path      |-> PyNone,
    ret_lit       |-> NullLiteral,
    ret_h         |-> 0,
    invoked       |-> FALSE,        \* __fspath__: this call invoked the downloader
    final_path    |-> PyNone,       \* listdir, crawl: the path that is enumerated
    ret_list      |-> <<>>,         \* listdir: the handles returned, in order
    dirname       |-> [text |-> "", isabs |-> FALSE],   \* new: the name given
    maxdepth      |-> 0,            \* crawl: maxdepth, 0 standing for None
    yielded       |-> <<>>,         \* crawl: the pairs yielded, in order
    io            |-> <<>> ]

(***************************************************************************)
(* The storage client and execution context (ctx.file_access,              *)
(* ctx.execution_state), consumed through their interface.                 *)
(***************************************************************************)
\* ctx.file_access.is_remote(path): the protocol of the path is not the local one
is_remote(p) == p.proto # "file"

\* pathlib.Path(p).is_dir() / os.path.isdir(p)
is_dir(p) == p \in dirs

\* the roots in store of which p is a direct subdirectory
RootsOf(p) ==
  {r \in DOMAIN store : \E name \in SubdirNames(store[r]) : Join(r, name) = p}

\* p names a directory of the local filesystem or of the object store
HasTree(p) == p \in DOMAIN store \/ RootsOf(p) # {}

\* the tree at p
TreeAt(p) ==
  IF p \in DOMAIN store
  THEN store[p]
  ELSE LET r == CHOOSE r \in RootsOf(p) : TRUE
       IN Subtree(store[r], CHOOSE name \in SubdirNames(store[r]) : Join(r, name) = p)

\* put_data(from, to, is_multipart=True) / get_data(from, to, is_multipart=True):
\* the tree at `from` is copied to the path `to`
Copied(from, to) == (to :> TreeAt(from)) @@ store

\* ctx.file_access.get_random_remote_directory()
get_random_remote_directory == RandomRemote

\* ctx.file_access.get_random_local_directory()
get_random_local_directory == RandomLocal(nlocal + 1)

\* the uri put_data returns: flyte:// is rewritten to the backend's scheme
put_data_result(to) ==
  PathStr(IF to.proto = "flyte" THEN "s3" ELSE to.proto, to.name, to.n)

(***************************************************************************)
(* FlyteDirectory.__fspath__ and download                                  *)
(***************************************************************************)
\* a __fspath__ that does not test the flag
NeedsDownload_Always(d) == TRUE

\* `if not self._downloaded:`
NeedsDownload(d) == ~d.downloaded

\* `self._downloaded = True`
MarkDownloaded(d) == [d EXCEPT !.downloaded = TRUE]

\* `return self.path`
FspathResult(d) == d.path

\* the storage call that invoking d's downloader makes
DownloaderIo(d) ==
  IF d.downloader.fn = "get_data"
  THEN <<IoEvent("get_data", d.downloader.src, d.downloader.dst, d.downloader.is_multipart,
                 "pending")>>
  ELSE <<>>

\* __fspath__ up to the point where the downloader is running, or to its return
FspathCall(i) ==
  /\ call.pc = "done"
  /\ i \in 1..Len(handles)
  /\ LET d  == handles[i]
         fr == [Frame("__fspath__") EXCEPT !.arg = PyDir(i)]
     IN IF NeedsDownload(d)
        THEN /\ obs[i].invoked < MaxInvocations
             /\ call' = [fr EXCEPT !.pc = "await_download", !.invoked = TRUE,
                                   !.io = DownloaderIo(d)]
             /\ obs' = [obs EXCEPT ![i].invoked = @ + 1]
        ELSE /\ call' = [fr EXCEPT !.outcome = "return", !.ret_path = FspathResult(d)]
             /\ obs' = [obs EXCEPT ![i].returned = @ \cup {FspathResult(d)}]
  /\ UNCHANGED <<handles, dirs, store, nlocal, outside>>

\* the downloader completes: the flag is set and the path returned
DownloaderReturns ==
  /\ call.pc = "await_download"
  /\ LET i == call.arg.h
         d == handles[i]
         e == MarkDownloaded(d)
         f == d.downloader
     IN /\ f.fn = "get_data" /\ f.is_multipart => HasTree(f.src)
        /\ handles' = [handles EXCEPT ![i] = e]
        /\ IF f.fn = "get_data" /\ f.is_multipart
           THEN /\ store' = Copied(f.src, f.dst)
                /\ dirs' = dirs \cup DirsUnder(f.dst, TreeAt(f.src))
           ELSE UNCHANGED <<dirs, store>>
        /\ call' = [call EXCEPT !.pc = "done", !.outcome = "return",
                                !.ret_path = FspathResult(e),
                                !.io = IF @ = <<>> THEN @ ELSE Ended(@, "ok")]
        /\ obs' = [obs EXCEPT ![i].completed = @ + 1,
                              ![i].returned = @ \cup {FspathResult(e)}]
  /\ UNCHANGED <<nlocal, outside>>

\* the downloader raises: the exception leaves __fspath__ before the flag is set
DownloaderRaises ==
  /\ call.pc = "await_download"
  /\ handles[call.arg.h].downloader.fn # "noop"
  /\ call' = [call EXCEPT !.pc = "done", !.outcome = "raise", !.err = "TransferFailure",
                          !.io = IF @ = <<>> THEN @ ELSE Ended(@, "raised")]
  /\ UNCHANGED <<handles, obs, dirs, store, nlocal, outside>>

(***************************************************************************)
(* FlyteDirToMultipartBlobTransformer.async_to_literal                     *)
(***************************************************************************)
\* a remote-source test that holds only until the handle is downloaded
HasRemoteSource_UnlessDownloaded(d) == d.remote_source # PyNone /\ ~d.downloaded

\* `if python_val._remote_source is not None:`
HasRemoteSource(d) == d.remote_source # PyNone

\* the literal of the remote-source branch
RemoteSourceUri(d) == Str(d.remote_source)

\* the test without `python_val.remote_directory is False`
ShouldUploadDirectory_NoSentinel(remote_directory, source_path, local) ==
  ~ ( /\ ~IsPathOrStr(remote_directory)
      /\ \/ is_remote(source_path)
         \/ local )

\* the test without the isinstance guard: local execution never uploads
ShouldUploadDirectory_LocalNeverUploads(remote_directory, source_path, local) ==
  ~ ( \/ remote_directory = PyFalse
      \/ is_remote(source_path)
      \/ local )

\* should_upload after the FlyteDirectory branch's test of remote_directory,
\* is_remote(source_path) and is_local_execution()
ShouldUploadDirectory(remote_directory, source_path, local) ==
  ~ ( /\ ~IsPathOrStr(remote_directory)
      /\ \/ remote_directory = PyFalse
         \/ is_remote(source_path)
         \/ local )

\* `remote_directory = python_val.remote_directory or None`
RemoteDirectoryOrNone(remote_directory) ==
  IF Truthy(remote_directory) THEN remote_directory ELSE PyNone

\* a str branch that, like the FlyteDirectory branch, does not upload in local execution
ShouldUploadPath_LocalSuppresses(source_path, local) == ~is_remote(source_path) /\ ~local

\* should_upload after the str / pathlib.Path branch (reached when the path is
\* remote or an existing local directory)
ShouldUploadPath(source_path, local) == ~is_remote(source_path)

\* the destination the upload is sent to, and whether it is a random one
UploadDestination(remote_directory) ==
  IF remote_directory = PyNone THEN PyStr(get_random_remote_directory) ELSE remote_directory

\* `meta = BlobMetadata(type=self._blob_type(format=self.get_format(python_type)))`
LiteralOf(uri, ext) == BlobLiteral(uri, ext, "MULTIPART")

\* what the literal's uri is when nothing is uploaded
UriWithoutUpload(source_path) == source_path

\* a literal built from the destination asked for, not from what put_data returned
UriAfterUpload_Requested(returned, to) == to

\* what the literal's uri is after put_data returned `returned`
UriAfterUpload(returned, to) == returned

\* an upload that is started without the test of line 558
UploadOrReturn_Unchecked(fr, source_path, should_upload, remote_directory) ==
  LET f0 == [fr EXCEPT !.source_path = source_path, !.should_upload = should_upload]
      to == UploadDestination(remote_directory)
  IN IF should_upload
     THEN [f0 EXCEPT !.pc = "await_put", !.dest = to,
                     !.io = <<IoEvent("put_data", source_path, Str(to), TRUE, "pending")>>]
     ELSE [f0 EXCEPT !.outcome = "return",
                     !.ret_lit = LiteralOf(UriWithoutUpload(source_path), fr.ext)]

\* `if should_upload: ... else: ...`: up to the await of async_put_data, or to the
\* return or raise that precedes it
UploadOrReturn(fr, source_path, should_upload, remote_directory) ==
  LET f0 == [fr EXCEPT !.source_path = source_path, !.should_upload = should_upload]
  IN IF should_upload
     THEN LET to  == UploadDestination(remote_directory)
              io1 == IF remote_directory = PyNone
                     THEN <<IoEvent("get_random_remote_directory", Str(to), NoPath, FALSE, "ok")>>
                     ELSE <<>>
          IN IF ~is_dir(source_path)
             THEN [f0 EXCEPT !.outcome = "raise", !.err = "FlyteAssertion", !.io = io1,
                             !.dest = to]
             ELSE [f0 EXCEPT !.pc = "await_put", !.dest = to,
                             !.io = Append(io1, IoEvent("put_data", source_path, Str(to), TRUE,
                                                       "pending"))]
     ELSE [f0 EXCEPT !.outcome = "return",
                     !.ret_lit = LiteralOf(UriWithoutUpload(source_path), fr.ext)]

\* the FlyteDirectory branch
ToLiteralDirectory(fr, d) ==
  IF HasRemoteSource(d)
  THEN [fr EXCEPT !.outcome = "return", !.ret_lit = LiteralOf(RemoteSourceUri(d), fr.ext)]
  ELSE LET source_path == Str(d.path)
       IN UploadOrReturn(fr, source_path,
                         ShouldUploadDirectory(d.remote_directory, source_path, fr.local),
                         RemoteDirectoryOrNone(d.remote_directory))

\* the str / pathlib.Path branch
ToLiteralPath(fr, python_val) ==
  LET source_path == Str(python_val)
  IN IF ~is_remote(source_path) /\ ~is_dir(source_path)
     THEN [fr EXCEPT !.source_path = source_path, !.should_upload = TRUE,
                     !.outcome = "raise", !.err = "ValueError"]
     ELSE UploadOrReturn(fr, source_path, ShouldUploadPath(source_path, fr.local), PyNone)

\* assert_type(t, v): returns for a FlyteDirectory, a str and any os.PathLike
\* (pathlib.Path is one), raises TypeError for anything else
assert_type(v) ==
  IF v.ty = "FlyteDirectory" \/ v.ty = "str" \/ v.ty \in {"Path", "PathLike"}
  THEN "return"
  ELSE "TypeError"

\* async_to_literal(ctx, python_val, python_type, expected) up to its first await
ToLiteralFrame(python_val, ext, local) ==
  LET fr == [Frame("to_literal") EXCEPT !.arg = python_val, !.ext = ext, !.local = local]
  IN CASE python_val.ty = "FlyteDirectory" -> ToLiteralDirectory(fr, handles[python_val.h])
       [] IsPathOrStr(python_val)           -> ToLiteralPath(fr, python_val)
       [] OTHER -> [fr EXCEPT !.outcome = "raise", !.err = "AssertionError"]

ToLiteralCall(python_val, ext, local) ==
  /\ call.pc = "done"
  /\ python_val.ty = "FlyteDirectory" => python_val.h \in 1..Len(handles)
  /\ call' = ToLiteralFrame(python_val, ext, local)
  /\ UNCHANGED <<handles, obs, dirs, store, nlocal, outside>>

\* async_put_data has copied the directory and returns the final uri: the
\* literal is built from it
PutDataReturns ==
  /\ call.pc = "await_put"
  /\ LET returned == put_data_result(Str(call.dest))
     IN /\ call' = [call EXCEPT !.pc = "done", !.outcome = "return", !.io = Ended(@, "ok"),
                       !.ret_lit = LiteralOf(UriAfterUpload(returned, Str(call.dest)), call.ext)]
        /\ store' = Copied(call.source_path, returned)
        /\ dirs' = IF is_remote(returned)
                   THEN dirs
                   ELSE dirs \cup DirsUnder(returned, TreeAt(call.source_path))
  /\ UNCHANGED <<handles, obs, nlocal, outside>>

\* a failed upload that is swallowed: the literal names the destination asked for
PutDataRaises_Swallowed ==
  /\ call.pc = "await_put"
  /\ call' = [call EXCEPT !.pc = "done", !.outcome = "return", !.io = Ended(@, "raised"),
                          !.ret_lit = LiteralOf(Str(call.dest), call.ext)]
  /\ UNCHANGED <<handles, obs, dirs, store, nlocal, outside>>

\* async_put_data raises: the exception leaves async_to_literal
PutDataRaises ==
  /\ call.pc = "await_put"
  /\ call' = [call EXCEPT !.pc = "done", !.outcome = "raise", !.err = "TransferFailure",
                          !.io = Ended(@, "raised")]
  /\ UNCHANGED <<handles, obs, dirs, store, nlocal, outside>>

(***************************************************************************)
(* FlyteDirToMultipartBlobTransformer.async_to_python_value                *)
(***************************************************************************)
\* a __class_getitem__ that always gives the base class
ClassGetitemExtension_Base(item) == ""

\* FlyteDirectory.__class_getitem__(item).extension(): item without surrounding
\* blanks and leading "~" and "."; the items that reach it here are extension()
\* values, which are already of that form
ClassGetitemExtension(item) == item

\* a decoder that does not look at the dimensionality
NotMultipart_Unchecked(lv) == FALSE

\* `lv.scalar.blob.metadata.type.dimensionality != MULTIPART`
NotMultipart(lv) == lv.dimensionality # "MULTIPART"

Decoded(outcome, err, d, io) == [outcome |-> outcome, err |-> err, handle |-> d, io |-> io]

\* a local case that leaves remote_directory at its default None
LocalHandle_DefaultDestination(uri, ext) == FlyteDirectoryInit(PyStr(uri), PyNone, PyNone, ext)

\* the local case: `expected_python_type(uri, remote_directory=False)`
LocalHandle(uri, ext) == FlyteDirectoryInit(PyStr(uri), PyNone, PyFalse, ext)

\* a remote case whose downloader fills another folder than the handle's path
RemoteHandle_DetachedFolder(uri, local_folder, ext) ==
  [FlyteDirectoryInit(PyStr(local_folder), GetDataPartial(uri, RandomLocal(0), TRUE),
                      PyNone, ClassGetitemExtension(ext))
     EXCEPT !.remote_source = PyStr(uri)]

\* the remote case: a handle on a random local folder that downloads on demand
RemoteHandle(uri, local_folder, ext) ==
  [FlyteDirectoryInit(PyStr(local_folder), GetDataPartial(uri, local_folder, TRUE),
                      PyNone, ClassGetitemExtension(ext))
     EXCEPT !.remote_source = PyStr(uri)]

\* the blob part of async_to_python_value: dimensionality, local or remote uri
DecodeBlob(lv, ext) ==
  LET uri == lv.uri
  IN IF NotMultipart(lv)
     THEN Decoded("raise", "TypeTransformerFailedError", NullHandle, <<>>)
     ELSE IF ~is_remote(uri) /\ ~is_dir(uri)
     THEN Decoded("raise", "FlyteAssertion", NullHandle, <<>>)
     ELSE IF ~is_remote(uri)
     THEN Decoded("return", "", LocalHandle(uri, ext), <<>>)
     ELSE LET local_folder == get_random_local_directory
          IN Decoded("return", "", RemoteHandle(uri, local_folder, ext),
                     <<IoEvent("get_random_local_directory", local_folder, NoPath, FALSE, "ok")>>)

\* dict_to_flyte_directory: the mapping's path as a MULTIPART blob of format ""
DictToFlyteDirectory(has_path, path, ext) ==
  IF ~has_path
  THEN Decoded("raise", "ValueError", NullHandle, <<>>)
  ELSE DecodeBlob(BlobLiteral(path, "", "MULTIPART"), ext)

\* a from_binary_idl that unpacks whatever the tag is
FromBinaryIdl_AnyTag(lv, ext) == DictToFlyteDirectory(lv.has_path, lv.uri, ext)

\* from_binary_idl
FromBinaryIdl(lv, ext) ==
  IF lv.tag = MESSAGEPACK
  THEN DictToFlyteDirectory(lv.has_path, lv.uri, ext)
  ELSE Decoded("raise", "TypeTransformerFailedError", NullHandle, <<>>)

\* from_generic_idl
FromGenericIdl(lv, ext) == DictToFlyteDirectory(lv.has_path, lv.uri, ext)

\* async_to_python_value(ctx, lv, expected_python_type)
ToPythonValue(lv, ext) ==
  CASE lv.kind = "binary"  -> FromBinaryIdl(lv, ext)
    [] lv.kind = "generic" -> FromGenericIdl(lv, ext)
    [] lv.kind = "blob"    -> DecodeBlob(lv, ext)
    [] OTHER -> Decoded("raise", "TypeTransformerFailedError", NullHandle, <<>>)

\* what is recorded about a handle: the constructor call that made it, the
\* downloader invocations started and completed, the paths __fspath__ returned
NewObs == [origin |-> "__init__", invoked |-> 0, completed |-> 0, returned |-> {}]

\* a handle made by the transformer's async_to_python_value
DecodedObs == [NewObs EXCEPT !.origin = "to_python_value"]

\* a call `op` that is, or ends in, to_python_value(ctx, lv, expected_python_type)
DecodeCall(op, lv, ext) ==
  /\ call.pc = "done"
  /\ LET r  == ToPythonValue(lv, ext)
         fr == [Frame(op) EXCEPT !.lit = lv, !.ext = ext,
                   !.outcome = r.outcome, !.err = r.err, !.io = r.io]
     IN IF r.outcome = "return"
        THEN /\ Len(handles) < MaxHandles
             /\ handles' = Append(handles, r.handle)
             /\ obs' = Append(obs, DecodedObs)
             /\ nlocal' = nlocal + Cardinality(IoNamed(r.io, "get_random_local_directory"))
             /\ call' = [fr EXCEPT !.ret_h = Len(handles) + 1]
        ELSE /\ call' = fr
             /\ UNCHANGED <<handles, obs, nlocal>>
  /\ UNCHANGED <<dirs, store, outside>>

ToPythonValueCall(lv, ext) == DecodeCall("to_python_value", lv, ext)

\* FlyteDirectory.from_source(source): to_python_value of a MULTIPART blob
\* literal of format "" with uri=source, expected type cls
FromSourceCall(source) == DecodeCall("from_source", BlobLiteral(source, "", "MULTIPART"), "")

(***************************************************************************)
(* User code constructing a handle: FlyteDirectory(path, downloader,       *)
(* remote_directory)                                                       *)
(***************************************************************************)
ConstructUpTo(n, path, downloader, remote_directory) ==
  /\ call.pc = "done"
  /\ Len(handles) < n
  /\ handles' = Append(handles, FlyteDirectoryInit(path, downloader, remote_directory, ""))
  /\ obs' = Append(obs, NewObs)
  /\ call' = [Frame("__init__") EXCEPT !.outcome = "return", !.ret_h = Len(handles) + 1]
  /\ UNCHANGED <<dirs, store, nlocal, outside>>

Construct(path, downloader, remote_directory) ==
  ConstructUpTo(MaxHandles, path, downloader, remote_directory)

(***************************************************************************)
(* FlyteDirectory.listdir                                                  *)
(***************************************************************************)
\* an enumeration that always takes the handle's path
EffectivePath_PathOnly(d) == d.path

\* final_path: the remote source, else the remote_directory, else the path
EffectivePath(d) ==
  IF Truthy(d.remote_source) THEN d.remote_source
  ELSE IF Truthy(d.remote_directory) THEN d.remote_directory
  ELSE d.path

\* the elements of a finite set in some order, each once
SeqOf(S) ==
  CHOOSE q \in [1..Cardinality(S) -> S] : \A i, j \in 1..Cardinality(S) : i # j => q[i] # q[j]

\* what os.listdir with os.path.isfile, or fs.listdir, reports for tree t:
\* the direct children only
Entries(t) ==
  SeqOf({[name |-> n, type |-> "file"] : n \in FileNames(t)}
        \cup {[name |-> n, type |-> "directory"] : n \in SubdirNames(t)})

\* the local case: FlyteFile(joined_path) or FlyteDirectory(joined_path)
LocalChild(joined_path, type) ==
  IF type = "file"
  THEN FlyteFileInit(PyStr(joined_path), PyNone)
  ELSE FlyteDirectoryInit(PyStr(joined_path), PyNone, PyNone, "")

\* a file child whose downloader asks for a whole directory
RemoteFileChild_Multipart(remote_path, local_path) ==
  [FlyteFileInit(PyStr(local_path), GetDataPartial(remote_path, local_path, TRUE))
     EXCEPT !.remote_source = PyStr(remote_path)]

\* the remote case, key["type"] == "file"
RemoteFileChild(remote_path, local_path) ==
  [FlyteFileInit(PyStr(local_path), GetDataPartial(remote_path, local_path, FALSE))
     EXCEPT !.remote_source = PyStr(remote_path)]

\* the remote case, any other key["type"]
RemoteDirectoryChild(remote_path, local_folder) ==
  [FlyteDirectoryInit(PyStr(local_folder), GetDataPartial(remote_path, local_folder, TRUE),
                      PyNone, "")
     EXCEPT !.remote_source = PyStr(remote_path)]

\* the k-th handle listdir makes for entries es of final_path
ListedChild(fp, es, k) ==
  LET joined == Join(fp, es[k].name)
  IN IF ~is_remote(fp) THEN LocalChild(joined, es[k].type)
     ELSE IF es[k].type = "file" THEN RemoteFileChild(joined, RandomLocal(nlocal + k))
     ELSE RemoteDirectoryChild(joined, RandomLocal(nlocal + k))

\* the storage and filesystem calls listdir makes for the k-th remote entry
ListedChildIo(es, k) ==
  IF es[k].type = "file"
  THEN <<IoEvent("get_random_local_path", RandomLocal(nlocal + k), NoPath, FALSE, "ok"),
         IoEvent("os.makedirs", LocalSandbox, NoPath, FALSE, "ok")>>
  ELSE <<IoEvent("get_random_local_directory", RandomLocal(nlocal + k), NoPath, FALSE, "ok")>>

RECURSIVE ListedIo(_, _)
ListedIo(es, k) == IF k = 0 THEN <<>> ELSE ListedIo(es, k - 1) \o ListedChildIo(es, k)

\* a handle made by listdir
ListedObs == [NewObs EXCEPT !.origin = "listdir"]

\* no handle has come out of a listdir yet
NoneListed == \A j \in 1..Len(handles) : obs[j].origin # "listdir"

\* FlyteDirectory.listdir(directory), directory being handles[i]
ListdirCall(i) ==
  /\ call.pc = "done"
  /\ i \in 1..Len(handles)
  /\ handles[i].cls = "FlyteDirectory"
  /\ LET final_path == EffectivePath(handles[i])
         fp   == Str(final_path)
         fn   == IF is_remote(fp) THEN "fs.listdir" ELSE "os.listdir"
         fr   == [Frame("listdir") EXCEPT !.arg = PyDir(i), !.final_path = final_path]
     IN IF ~HasTree(fp)
        THEN /\ call' = [fr EXCEPT !.outcome = "raise", !.err = "FileNotFoundError",
                                   !.io = <<IoEvent(fn, fp, NoPath, FALSE, "raised")>>]
             /\ UNCHANGED <<handles, obs, nlocal>>
        ELSE LET es == Entries(TreeAt(fp))
                 n  == Len(es)
             IN /\ n > 0 => NoneListed
                /\ handles' = handles \o [k \in 1..n |-> ListedChild(fp, es, k)]
                /\ obs' = obs \o [k \in 1..n |-> ListedObs]
                /\ nlocal' = IF is_remote(fp) THEN nlocal + n ELSE nlocal
                /\ call' = [fr EXCEPT !.outcome = "return",
                              !.ret_list = [k \in 1..n |-> Len(handles) + k],
                              !.io = <<IoEvent(fn, fp, NoPath, FALSE, "ok")>>
                                     \o (IF is_remote(fp) THEN ListedIo(es, n) ELSE <<>>)]
  /\ UNCHANGED <<dirs, store, outside>>

(***************************************************************************)
(* FlyteDirectory.crawl.  The text of a path is kept as a sequence of      *)
(* pieces, each counting as one character: the text of the path crawled,   *)
(* the separator "/", a file or directory name.                            *)
(***************************************************************************)
\* fsspec.core.strip_protocol(final_path)
strip_protocol(p) == <<p.name>>

\* fs.walk(final_path, maxdepth, topdown): one (base, files) per directory,
\* the top one first; the trees at hand are two levels deep
Walk(fp, maxdepth) ==
  IF ~HasTree(fp) THEN <<>>
  ELSE LET t    == TreeAt(fp)
           subs == SeqOf(SubdirNames(t))
       IN <<[base |-> strip_protocol(fp), files |-> SeqOf(FileNames(t))]>>
          \o (IF maxdepth = 1 THEN <<>>
              ELSE [k \in 1..Len(subs) |->
                      [base  |-> strip_protocol(fp) \o <<"/", subs[k]>>,
                       files |-> SeqOf(FileNames(Subtree(t, subs[k])))]])

\* a length that leaves out the separator after the base
BasePathLen_NoSeparator(fp) == Len(strip_protocol(fp))

\* `base_path_len = len(fsspec.core.strip_protocol(final_path)) + 1`
BasePathLen(fp) == Len(strip_protocol(fp)) + 1

\* `current_base = base[base_path_len:]`
CurrentBase(base, base_path_len) == SubSeq(base, base_path_len + 1, Len(base))

\* os.path.join(current_base, f)
OsPathJoin(current_base, f) ==
  IF current_base = <<>> THEN <<f>> ELSE current_base \o <<"/", f>>

\* what the loops over the first k entries of fs.walk yield
RECURSIVE Yielded(_, _, _)
Yielded(final_path, walk, k) ==
  IF k = 0 THEN <<>>
  ELSE LET current_base == CurrentBase(walk[k].base, BasePathLen(Str(final_path)))
       IN Yielded(final_path, walk, k - 1)
          \o [j \in 1..Len(walk[k].files) |->
                [base |-> final_path, rel |-> OsPathJoin(current_base, walk[k].files[j])]]

\* list(handles[i].crawl(maxdepth))
CrawlCall(i, maxdepth) ==
  /\ call.pc = "done"
  /\ i \in 1..Len(handles)
  /\ handles[i].cls = "FlyteDirectory"
  /\ LET final_path == EffectivePath(handles[i])
         walk == Walk(Str(final_path), maxdepth)
     IN call' = [Frame("crawl") EXCEPT !.arg = PyDir(i), !.final_path = final_path,
                   !.maxdepth = maxdepth, !.outcome = "return",
                   !.io = <<IoEvent("fs.walk", Str(final_path), NoPath, FALSE, "ok")>>,
                   !.yielded = Yielded(final_path, walk, Len(walk))]
  /\ UNCHANGED <<handles, obs, dirs, store, nlocal, outside>>

(***************************************************************************)
(* FlyteDirectory.new                                                      *)
(***************************************************************************)
\* a directory name as given to new, kept with what os.path.isabs says of it
DirName(text, isabs) == [text |-> text, isabs |-> isabs]

\* a file of some tree is at path p
FileAt(p) ==
  \E r \in DOMAIN store : \E name \in FileNames(store[r]) : Join(r, name) = p

\* a makedirs that accepts an existing directory
MakedirsRaises_ExistOk(path) == FileAt(path)

\* os.makedirs(path, exist_ok=False) raises FileExistsError: the path exists
MakedirsRaises(path) == is_dir(path) \/ FileAt(path)

\* a handle made by new
CreatedObs == [NewObs EXCEPT !.origin = "new"]

NewCall(dirname) ==
  /\ call.pc = "done"
  /\ LET fr   == [Frame("new") EXCEPT !.dirname = dirname]
         path == Join(WorkDir, dirname.text)
     IN IF dirname.isabs
        THEN /\ call' = [fr EXCEPT !.outcome = "raise", !.err = "ValueError"]
             /\ UNCHANGED <<handles, obs, dirs, store>>
        ELSE IF MakedirsRaises(path)
        THEN /\ call' = [fr EXCEPT !.outcome = "raise", !.err = "FileExistsError",
                            !.io = <<IoEvent("os.makedirs", path, NoPath, FALSE, "raised")>>]
             /\ UNCHANGED <<handles, obs, dirs, store>>
        ELSE /\ Len(handles) < MaxHandles
             /\ dirs' = dirs \cup {path}
             /\ store' = (path :> {}) @@ store
             /\ handles' = Append(handles, FlyteDirectoryInit(PyStr(path), PyNone, PyNone, ""))
             /\ obs' = Append(obs, CreatedObs)
             /\ call' = [fr EXCEPT !.outcome = "return", !.ret_h = Len(handles) + 1,
                            !.io = <<IoEvent("os.makedirs", path, NoPath, FALSE, "ok")>>]
  /\ UNCHANGED <<nlocal, outside>>

\* the literal that to_literal has just returned is decoded, as the next
\* task does with the output of the previous one
DecodeReturned ==
  /\ call.op = "to_literal"
  /\ call.outcome = "return"
  /\ ToPythonValueCall(call.ret_lit, call.ext)

(***************************************************************************)
(* User code that writes files into the local directory between calls      *)
(***************************************************************************)
WriteFiles(t) ==
  /\ call.pc = "done"
  /\ store[LocalDir] # t
  /\ store' = [store EXCEPT ![LocalDir] = t]
  /\ dirs' = dirs \cup DirsUnder(LocalDir, t)
  /\ call' = [Frame("write_files") EXCEPT !.outcome = "return"]
  /\ UNCHANGED <<handles, obs, nlocal, outside>>

(***************************************************************************)
(* FlyteDirectory.__fspath__ called from several threads on shared handles *)
(***************************************************************************)
\* threads that share the handles
MaxThreads == 2

Threads == 1..MaxThreads

\* a thread that is not inside __fspath__ and has not called it yet
IdleThread ==
  [ pc          |-> "idle",     \* "in_downloader", "after_downloader", "done"
    h           |-> 0,          \* the handle __fspath__ is called on
    invoked     |-> FALSE,      \* this call invoked the downloader
    ran         |-> FALSE,      \* the downloader's body ran to its end in this call
    after_raise |-> FALSE,      \* an earlier call on the handle had raised when this one began
    outcome     |-> "none",
    err         |-> "",
    ret_path    |-> PyNone ]

\* `self._downloader.func if isinstance(self._downloader, partial) else self._downloader`
underlying_func(f) == [f EXCEPT !.partial = FALSE]

\* asyncio.iscoroutinefunction(f)
iscoroutinefunction(f) == f.coroutine

\* a dispatch that calls every downloader directly
DrivenSynced_Never(f) == FALSE

\* `if asyncio.iscoroutinefunction(underlying_func):` the downloader is run by
\* loop_manager.synced(self._downloader)(), else called directly
DrivenSynced(f) == iscoroutinefunction(underlying_func(f))

\* loop_manager.synced(f)() runs the coroutine to its end before it returns;
\* f() runs a function's body, and for a coroutine function only makes the
\* coroutine object, whose body then never runs
BodyRuns(f) == DrivenSynced(f) \/ ~f.coroutine

\* thread u's last call on handle i ended in an exception
RaisedOn(u, i) ==
  threads[u].pc = "done" /\ threads[u].outcome = "raise" /\ threads[u].h = i

\* a flag kept by the class, not by the instance
SetDownloaded_ClassWide(hs, i) == [j \in DOMAIN hs |-> MarkDownloaded(hs[j])]

\* `self._downloaded = True` on handle i
SetDownloaded(hs, i) == [hs EXCEPT ![i] = MarkDownloaded(hs[i])]

\* a handle whose flag is set although the downloader raised
AfterRaise_Finally(d) == MarkDownloaded(d)

\* the handle when the downloader's exception leaves __fspath__: line 219 is not reached
AfterRaise(d) == d

\* thread t calls __fspath__ on handle i: the flag is tested and, if false, the
\* downloader invoked
ThreadFspath(t, i) ==
  /\ threads[t].pc \in {"idle", "done"}
  /\ i \in 1..Len(handles)
  /\ LET d  == handles[i]
         fr == [IdleThread EXCEPT !.h = i,
                                  !.after_raise = \E u \in Threads : RaisedOn(u, i)]
     IN IF NeedsDownload(d)
        THEN /\ obs[i].invoked < MaxInvocations
             /\ threads' = [threads EXCEPT ![t] =
                  [fr EXCEPT !.invoked = TRUE,
                             !.pc = IF BodyRuns(d.downloader) THEN "in_downloader"
                                                              ELSE "after_downloader"]]
             /\ obs' = [obs EXCEPT ![i].invoked = @ + 1]
        ELSE /\ threads' = [threads EXCEPT ![t] =
                  [fr EXCEPT !.pc = "done", !.outcome = "return",
                             !.ret_path = FspathResult(d)]]
             /\ obs' = [obs EXCEPT ![i].returned = @ \cup {FspathResult(d)}]
  /\ UNCHANGED <<handles, dirs, store, nlocal, call, environ, resource_meta>>

\* the downloader that thread t invoked runs to its end
ThreadDownloaderReturns(t) ==
  /\ threads[t].pc = "in_downloader"
  /\ LET i == threads[t].h
         f == handles[i].downloader
     IN /\ f.fn = "get_data" /\ f.is_multipart => HasTree(f.src)
        /\ IF f.fn = "get_data" /\ f.is_multipart
           THEN /\ store' = Copied(f.src, f.dst)
                /\ dirs' = dirs \cup DirsUnder(f.dst, TreeAt(f.src))
           ELSE UNCHANGED <<dirs, store>>
        /\ obs' = [obs EXCEPT ![i].completed = @ + 1]
  /\ threads' = [threads EXCEPT ![t].pc = "after_downloader", ![t].ran = TRUE]
  /\ UNCHANGED <<handles, nlocal, call, environ, resource_meta>>

\* the downloader that thread t invoked raises: the exception leaves __fspath__
ThreadDownloaderRaises(t) ==
  /\ threads[t].pc = "in_downloader"
  /\ handles[threads[t].h].downloader.fn # "noop"
  /\ handles' = [handles EXCEPT ![threads[t].h] = AfterRaise(@)]
  /\ threads' = [threads EXCEPT ![t].pc = "done", ![t].outcome = "raise",
                                ![t].err = "TransferFailure"]
  /\ UNCHANGED <<obs, dirs, store, nlocal, call, environ, resource_meta>>

\* thread t sets the flag and returns the path
ThreadFspathReturns(t) ==
  /\ threads[t].pc = "after_downloader"
  /\ LET i == threads[t].h
     IN /\ handles' = SetDownloaded(handles, i)
        /\ threads' = [threads EXCEPT ![t].pc = "done", ![t].outcome = "return",
                                      ![t].ret_path = FspathResult(handles'[i])]
        /\ obs' = [obs EXCEPT ![i].returned = @ \cup {FspathResult(handles'[i])}]
  /\ UNCHANGED <<dirs, store, nlocal, call, environ, resource_meta>>

(***************************************************************************)
(* PytorchElasticFunctionTask._execute (flytekitplugins/kfpytorch/task.py) *)
(***************************************************************************)
\* os.environ: the variables that are set, each with its value
NoEnviron == [n \in {} |-> ""]

\* os.environ[name] = value
Setenv(env, name, value) ==
  [n \in DOMAIN env \cup {name} |-> IF n = name THEN value ELSE env[n]]

\* `if "OMP_NUM_THREADS" not in os.environ and self.task_config.nproc_per_node > 1:
\*     os.environ["OMP_NUM_THREADS"] = str(1)`
OmpDefaulted(env, nproc_per_node) ==
  IF "OMP_NUM_THREADS" \notin DOMAIN env /\ nproc_per_node > 1
  THEN Setenv(env, "OMP_NUM_THREADS", "1")
  ELSE env

\* decks a worker process or the parent holds
Deck(cls, name) == [cls |-> cls, name |-> name]

\* ElasticWorkerResult(return_value, decks, om)
ElasticWorkerResult(return_value, decks, om) ==
  [return_value |-> return_value, decks |-> decks, om |-> om]

\* what elastic_launch(config, entrypoint)(*launcher_args) did.  kind: "none"
\* (not called), "out" (it returned `out`, global rank -> result of the local
\* workers), "ChildFailedError" (raised; recoverable: whether its first
\* failure is_recoverable_worker_error) or "SignalException" (raised)
Launch(kind, out, recoverable) == [kind |-> kind, out |-> out, recoverable |-> recoverable]

\* the frame of one _execute call
ElasticFrame ==
  [ op             |-> "_execute",
    pc             |-> "done",       \* "await_launch", "done"
    nproc_per_node |-> 1,
    start_method   |-> "spawn",
    env_before     |-> NoEnviron,    \* os.environ when _execute was entered
    env_after      |-> NoEnviron,    \* os.environ after line 407
    entrypoint     |-> "",           \* the function elastic_launch was given
    launch         |-> Launch("none", <<>>, FALSE),
    outcome        |-> "none",
    err            |-> "",
    ret            |-> -1,           \* the value returned, -1 when none
    decks          |-> <<>>,         \* decks appended to the parent's ctx.decks
    om_added       |-> FALSE ]       \* output metadata of rank 0 was registered

\* `launcher_target_func` for the start method
LauncherTarget(start_method) ==
  CASE start_method = "spawn" -> "spawn_helper"
    [] start_method = "fork"  -> "fn_partial"
    [] OTHER                  -> ""

\* _execute up to the call of elastic_launch, or to `raise ValueError("Bad start method")`
ExecuteCall(nproc_per_node, start_method) ==
  /\ call.pc = "done"
  /\ LET env1 == OmpDefaulted(environ, nproc_per_node)
         fr   == [ElasticFrame EXCEPT !.nproc_per_node = nproc_per_node,
                                      !.start_method = start_method,
                                      !.env_before = environ, !.env_after = env1]
     IN /\ environ' = env1
        /\ call' = IF LauncherTarget(start_method) = ""
                   THEN [fr EXCEPT !.outcome = "raise", !.err = "ValueError"]
                   ELSE [fr EXCEPT !.pc = "await_launch",
                                   !.entrypoint = LauncherTarget(start_method)]
  /\ UNCHANGED <<handles, obs, dirs, store, nlocal, threads, resource_meta>>

\* a handler that reports every child failure as recoverable
ChildFailedRaises_AlwaysRecoverable(recoverable) == "FlyteRecoverableException"

\* `except ChildFailedError`: the exception raised in its place
ChildFailedRaises(recoverable) ==
  IF recoverable THEN "FlyteRecoverableException" ELSE "FlyteUserRuntimeException"

\* `if not isinstance(deck, TimeLineDeck): ctx.decks.append(deck)`
DecksToParent(decks) == SelectSeq(decks, LAMBDA d : d.cls # "TimeLineDeck")

\* elastic_launch returns `out`
LaunchReturns(out) ==
  /\ call.op = "_execute" /\ call.pc = "await_launch"
  /\ call' = IF 0 \in DOMAIN out
             THEN [call EXCEPT !.pc = "done", !.launch = Launch("out", out, FALSE),
                               !.outcome = "return", !.ret = out[0].return_value,
                               !.decks = DecksToParent(out[0].decks),
                               !.om_added = out[0].om]
             ELSE [call EXCEPT !.pc = "done", !.launch = Launch("out", out, FALSE),
                               !.outcome = "raise", !.err = "IgnoreOutputs"]
  /\ UNCHANGED <<handles, obs, dirs, store, nlocal, outside>>

\* elastic_launch raises ChildFailedError or SignalException
LaunchRaises(e) ==
  /\ call.op = "_execute" /\ call.pc = "await_launch"
  /\ call' = [call EXCEPT !.pc = "done", !.launch = e, !.outcome = "raise",
                          !.err = IF e.kind = "ChildFailedError"
                                  THEN ChildFailedRaises(e.recoverable)
                                  ELSE "IgnoreOutputs"]
  /\ UNCHANGED <<handles, obs, dirs, store, nlocal, outside>>

\* the task's environment is changed between executions (the task
\* decorator's environment dict, `pyflyte run --env`)
SetEnv(value) ==
  /\ call.pc = "done"
  /\ environ' = IF value = "" THEN [n \in DOMAIN environ \ {"OMP_NUM_THREADS"} |-> environ[n]]
                              ELSE Setenv(environ, "OMP_NUM_THREADS", value)
  /\ UNCHANGED <<handles, obs, dirs, store, nlocal, call, threads, resource_meta>>

(***************************************************************************)
(* AirflowConnector (flytekitplugins/airflow/connector.py)                 *)
(***************************************************************************)
\* An Airflow task as the connector meets it.  kind: "operator" (a
\* BaseOperator that is no sensor), "sensor" (a BaseSensorOperator) or "hook";
\* execute: what the operator's execute does ("returns", "raises", "defers");
\* trigger, method_name: the TaskDeferred it raises when it defers, the
\* trigger given by its class name and the names in its __dict__
AirflowObj(kind, execute, trigger, method_name) ==
  [kind |-> kind, execute |-> execute, trigger |-> trigger, method_name |-> method_name]

Trigger(name, dict) == [name |-> name, parameters |-> dict]
NoTrigger == Trigger("", {})

\* AirflowMetadata(airflow_operator, airflow_trigger, airflow_trigger_callback)
AirflowMetadata(operator, trigger, callback) ==
  [kind |-> "AirflowMetadata", airflow_operator |-> operator, airflow_trigger |-> trigger,
   airflow_trigger_callback |-> callback]

\* the caller holds no metadata: create has not returned yet
NoMeta ==
  [kind |-> "none", airflow_operator |-> AirflowObj("", "", NoTrigger, ""),
   airflow_trigger |-> NoTrigger, airflow_trigger_callback |-> ""]

\* a stored trigger that keeps the base class's parameters
DeferredTrigger_AllParameters(trigger) == trigger

\* `parameters = td.trigger.__dict__.copy()` without task_instance and trigger_id
DeferredTrigger(trigger) ==
  Trigger(trigger.name, trigger.parameters \ {"task_instance", "trigger_id"})

\* the frame of one call of the connector
AirflowFrame(op) ==
  [ op       |-> op,
    pc       |-> "done",
    obj      |-> AirflowObj("", "", NoTrigger, ""),   \* the task the call is about
    calls    |-> <<>>,       \* methods called on the operator and the trigger, in order
    poke     |-> "",         \* get: what poke did
    event    |-> "",         \* get: what the wait for the trigger's event did
    callback |-> "",         \* get: what the trigger callback did
    text     |-> "",         \* get: str() of the AirflowException caught
    outcome  |-> "return",
    err      |-> "",
    phase    |-> "",
    message  |-> "",
    meta     |-> NoMeta ]    \* create: the metadata returned

\* AirflowConnector.create for the task airflow_obj
Create(airflow_obj) ==
  /\ call.pc = "done"
  /\ LET meta0 == AirflowMetadata(airflow_obj, NoTrigger, "")
         fr    == [AirflowFrame("create") EXCEPT !.obj = airflow_obj]
         done  ==
           IF airflow_obj.kind = "operator"
           THEN CASE airflow_obj.execute = "defers" ->
                       [fr EXCEPT !.calls = <<"execute">>,
                                  !.meta = AirflowMetadata(airflow_obj,
                                              DeferredTrigger(airflow_obj.trigger),
                                              airflow_obj.method_name)]
                  [] airflow_obj.execute = "raises" ->
                       [fr EXCEPT !.calls = <<"execute">>, !.outcome = "raise",
                                  !.err = "AirflowException"]
                  [] OTHER -> [fr EXCEPT !.calls = <<"execute">>, !.meta = meta0]
           ELSE [fr EXCEPT !.meta = meta0]
     IN /\ call' = done
        /\ resource_meta' = IF done.outcome = "return" THEN done.meta ELSE resource_meta
  /\ UNCHANGED <<handles, obs, dirs, store, nlocal, threads, environ>>

\* a get that reports a failed trigger as still running
TriggerPhase_FailureRuns(event, callback) ==
  IF event = "event" /\ callback = "returns" THEN "SUCCEEDED" ELSE "RUNNING"

\* cur_phase of an operator with a trigger: `event` is what
\* asyncio.wait_for(trigger.run().__anext__(), 2) did, `callback` what the
\* trigger callback did ("Exception": an exception that is no AirflowException
\* and no timeout leaves get)
TriggerPhase(event, callback) ==
  CASE event = "TimeoutError"     -> "RUNNING"
    [] event = "AirflowException" -> "FAILED"
    [] event = "Exception"        -> ""
    [] callback = "AirflowException" -> "FAILED"
    [] callback = "Exception"     -> ""
    [] OTHER -> "SUCCEEDED"

\* AirflowConnector.get for the metadata the caller holds; text is what the
\* str() of an exception raised in it reads
Get(poke, event, callback, text) ==
  /\ call.pc = "done"
  /\ resource_meta # NoMeta
  /\ LET operator == resource_meta.airflow_operator
         trigger  == resource_meta.airflow_trigger
         fr       == [AirflowFrame("get") EXCEPT !.obj = operator]
     IN call' =
          CASE operator.kind = "sensor" ->
                 IF poke = "raises"
                 THEN [fr EXCEPT !.calls = <<"poke">>, !.poke = poke, !.outcome = "raise",
                                 !.err = "AirflowException"]
                 ELSE [fr EXCEPT !.calls = <<"poke">>, !.poke = poke,
                                 !.phase = IF poke = "True" THEN "SUCCEEDED" ELSE "RUNNING"]
            [] operator.kind = "operator" ->
                 IF trigger # NoTrigger
                 THEN [fr EXCEPT
                         !.calls = IF event = "event"
                                   THEN <<"run", resource_meta.airflow_trigger_callback>>
                                   ELSE <<"run">>,
                         !.event = event,
                         !.callback = IF event = "event" THEN callback ELSE "",
                         !.phase = TriggerPhase(event, callback),
                         !.outcome = IF TriggerPhase(event, callback) = "" THEN "raise"
                                                                          ELSE "return",
                         !.err = IF TriggerPhase(event, callback) = "" THEN "Exception" ELSE "",
                         !.text = IF TriggerPhase(event, callback) = "FAILED" THEN text ELSE "",
                         !.message = IF TriggerPhase(event, callback) = "FAILED" THEN text
                                                                                ELSE ""]
                 ELSE [fr EXCEPT !.phase = "SUCCEEDED"]
            [] OTHER -> [fr EXCEPT !.outcome = "raise", !.err = "FlyteUserException"]
  /\ UNCHANGED <<handles, obs, dirs, store, nlocal, outside>>

\* AirflowConnector.delete: `return`
Delete ==
  /\ call.pc = "done"
  /\ resource_meta # NoMeta
  /\ call' = [AirflowFrame("delete") EXCEPT !.obj = resource_meta.airflow_operator]
  /\ UNCHANGED <<handles, obs, dirs, store, nlocal, outside>>

(***************************************************************************)
(* PyTorchFunctionTask (flytekitplugins/kfpytorch/task.py)                 *)
(***************************************************************************)
\* None where an Optional[int] is expected
NoInt == -1

\* bool(n) of an Optional[int]: None and 0 are falsy
TruthyInt(n) == n # NoInt /\ n # 0

\* the frame of PyTorchFunctionTask.__init__ or get_custom, with the task's
\* task_config (num_workers, worker.replicas, increase_shared_mem) and
\* shared_memory, "None", "False" or "True"
PyTorchFrame(op, num_workers, replicas, increase_shared_mem, shared_memory) ==
  [ op                  |-> op,
    pc                  |-> "done",
    num_workers         |-> num_workers,
    replicas            |-> replicas,
    increase_shared_mem |-> increase_shared_mem,
    shared_memory       |-> shared_memory,
    outcome             |-> "return",
    err                 |-> "",
    shm_volume          |-> FALSE,     \* the pod template has the shared memory volume
    worker_replicas     |-> NoInt,     \* get_custom: replicas of the job's worker spec
    master_replicas     |-> NoInt ]    \* get_custom: replicas of the job's master spec

\* PyTorchFunctionTask.__init__(task_config, task_function)
PyTorchInit(num_workers, replicas, increase_shared_mem, shared_memory) ==
  LET fr == PyTorchFrame("PyTorchFunctionTask.__init__", num_workers, replicas,
                         increase_shared_mem, shared_memory)
  IN IF TruthyInt(num_workers) /\ TruthyInt(replicas)
     THEN [fr EXCEPT !.outcome = "raise", !.err = "ValueError"]
     ELSE IF num_workers = NoInt /\ replicas = NoInt
     THEN [fr EXCEPT !.outcome = "raise", !.err = "ValueError"]
     ELSE [fr EXCEPT !.shm_volume = increase_shared_mem /\ shared_memory \in {"None", "False"}]

\* _convert_replica_spec(replica_config).replicas: 1 for the master, else
\* replica_config.replicas, an unset protobuf field reading 0
ConvertReplicaSpec(is_master, replicas) ==
  IF is_master THEN 1 ELSE IF replicas = NoInt THEN 0 ELSE replicas

\* get_custom: the worker spec's replicas, overwritten by a truthy num_workers
WorkerReplicas(num_workers, replicas) ==
  IF TruthyInt(num_workers) THEN num_workers ELSE ConvertReplicaSpec(FALSE, replicas)

PyTorchInitCall(num_workers, replicas, increase_shared_mem, shared_memory) ==
  /\ call.pc = "done"
  /\ call' = PyTorchInit(num_workers, replicas, increase_shared_mem, shared_memory)
  /\ UNCHANGED <<handles, obs, dirs, store, nlocal, outside>>

\* get_custom(settings) of the task the most recent call constructed or serialized
GetCustomCall ==
  /\ call.pc = "done" /\ call.outcome = "return"
  /\ call.op \in {"PyTorchFunctionTask.__init__", "get_custom"}
  /\ call' = [call EXCEPT !.op = "get_custom",
                          !.worker_replicas = WorkerReplicas(call.num_workers, call.replicas),
                          !.master_replicas = ConvertReplicaSpec(TRUE, NoInt)]
  /\ UNCHANGED <<handles, obs, dirs, store, nlocal, outside>>

(***************************************************************************)
(* Inputs                                                                  *)
(***************************************************************************)
Formats == {"", "csv"}

\* paths a user gives to the constructor
UserPaths == {PyStr(LocalDir), PyStr(NotADir), PyStr(RemoteSrc)}

\* remote_directory values: None, False, "", a str, a pathlib.Path, another os.PathLike
UserRemoteDirectories ==
  {PyNone, PyFalse, PyStr(EmptyStr), PyStr(RemoteDst), PyPath(LocalDest), PyPathLike(LocalDest)}

\* python_val values that are not handles
PlainValues ==
  {PyStr(LocalDir), PyPath(LocalDir), PyStr(NotADir), PyStr(RemoteSrc), PyPathLike(LocalDir)}

\* literals with the expected_python_type's extension they are decoded under
DecodeInputs ==
  {<<BlobLiteral(u, f, "MULTIPART"), e>> : u \in {LocalDir, NotADir, RemoteSrc},
                                            f \in Formats, e \in Formats}
  \cup {<<BlobLiteral(u, "", "SINGLE"), "">> : u \in {LocalDir, RemoteSrc}}
  \cup {<<BinaryLiteral(MESSAGEPACK, TRUE, u), "">> : u \in {LocalDir, RemoteSrc}}
  \cup {<<BinaryLiteral(MESSAGEPACK, FALSE, NoPath), "">>,
        <<BinaryLiteral("json", TRUE, RemoteSrc), "">>}
  \cup {<<GenericLiteral(TRUE, u), "">> : u \in {NotADir, RemoteSrc}}
  \cup {<<GenericLiteral(FALSE, NoPath), "">>, <<OtherLiteral, "">>}

(***************************************************************************)
(* Specification                                                           *)
(***************************************************************************)
Init ==
  /\ handles = <<>>
  /\ obs = <<>>
  /\ store = (LocalDir :> TreeD) @@ (RemoteSrc :> TreeX) @@ (WorkDir :> TreeW)
  /\ dirs = DirsUnder(LocalDir, TreeD) \cup DirsUnder(WorkDir, TreeW) \cup {LocalSandbox}
  /\ nlocal = 0
  /\ call = [Frame("none") EXCEPT !.outcome = "return"]
  /\ threads = [t \in Threads |-> IdleThread]
  /\ environ = NoEnviron
  /\ resource_meta = NoMeta

Next ==
  \/ \E p \in UserPaths, rd \in UserRemoteDirectories : Construct(p, PyNone, rd)
  \/ \E i \in 1..MaxHandles : FspathCall(i)
  \/ DownloaderReturns
  \/ DownloaderRaises
  \/ \E v \in PlainValues \cup {PyDir(i) : i \in 1..MaxHandles}, l \in BOOLEAN :
       ToLiteralCall(v, "", l)
  \/ PutDataReturns
  \/ PutDataRaises
  \/ \E in \in DecodeInputs : ToPythonValueCall(in[1], in[2])

Spec == Init /\ [][Next]_vars

\* a directory is encoded, the literal decoded again and the handle
\* materialised, while user code goes on writing into the directory
NextRoundTrip ==
  \/ \E t \in {TreeD, TreeD2} : WriteFiles(t)
  \/ \E rd \in {PyNone, PyStr(RemoteDst), PyPath(LocalDest)} :
       Construct(PyStr(LocalDir), PyNone, rd)
  \/ \E v \in {PyStr(LocalDir), PyPath(LocalDir)} \cup {PyDir(i) : i \in 1..MaxHandles},
        l \in BOOLEAN : ToLiteralCall(v, "", l)
  \/ PutDataReturns
  \/ PutDataRaises
  \/ DecodeReturned
  \/ \E i \in 1..MaxHandles : FspathCall(i)
  \/ DownloaderReturns
  \/ DownloaderRaises

SpecRoundTrip == Init /\ [][NextRoundTrip]_vars

\* handles as the directory operations take them: path and remote_directory
ListedHandles ==
  ({PyStr(LocalDir)} \X {PyNone, PyFalse, PyStr(EmptyStr), PyStr(RemoteSrc), PyStr(RemoteDst)})
  \cup ({PyStr(RemoteSrc)} \X {PyNone, PyPath(LocalDir)})

\* names given to new: relative ones, among them the names of an existing
\* file and of an existing directory, and an absolute one
DirNames ==
  {DirName("out", FALSE), DirName("notes.txt", FALSE), DirName("cache", FALSE),
   DirName("/tmp/mydir", TRUE)}

\* handles are made, enumerated, and they and the handles of their children
\* materialised
NextDir ==
  \/ \E in \in ListedHandles : Construct(in[1], PyNone, in[2])
  \/ \E in \in {<<BlobLiteral(RemoteSrc, "", "MULTIPART"), "">>} :
       ToPythonValueCall(in[1], in[2])
  \/ \E i \in 1..Len(handles) : ListdirCall(i)
  \/ \E i \in 1..Len(handles) : FspathCall(i)
  \/ DownloaderReturns
  \/ DownloaderRaises

SpecDir == Init /\ [][NextDir]_vars

\* handles are made by the constructor, by from_source and by new, crawled
\* and materialised
NextCrawl ==
  \/ \E in \in ListedHandles : Construct(in[1], PyNone, in[2])
  \/ \E source \in {LocalDir, NotADir, RemoteSrc} : FromSourceCall(source)
  \/ \E dirname \in DirNames : NewCall(dirname)
  \/ \E i \in 1..MaxHandles, maxdepth \in {0, 1} : CrawlCall(i, maxdepth)
  \/ \E i \in 1..MaxHandles : FspathCall(i)
  \/ DownloaderReturns
  \/ DownloaderRaises

SpecCrawl == Init /\ [][NextCrawl]_vars

\* the directories the threads share a handle on, in the order in which the
\* handles are made
SharedDirs == <<LocalDest, PathStr("file", "/mnt/cache", 0)>>

\* downloaders given to the constructor: a function or a coroutine function
\* that fetches s3://bucket/x into the directory dst, plain or wrapped in partial
UserDownloaders(dst) ==
  {[GetDataPartial(RemoteSrc, dst, TRUE) EXCEPT !.coroutine = c, !.partial = p] :
     c \in BOOLEAN, p \in BOOLEAN}

\* handles are made, all by the same code and so with the same kind of
\* downloader, and threads call __fspath__ on them, each thread one call at a
\* time
NextThreads ==
  \/ \E k \in 1..Len(SharedDirs) : \E f \in UserDownloaders(SharedDirs[k]) \cup {PyNone} :
       /\ k = Len(handles) + 1
       /\ k > 1 => LET g == FlyteDirectoryInit(PyNone, f, PyNone, "").downloader
                   IN /\ g.fn = handles[1].downloader.fn
                      /\ g.coroutine = handles[1].downloader.coroutine
                      /\ g.partial = handles[1].downloader.partial
       /\ ConstructUpTo(Len(SharedDirs), PyPath(SharedDirs[k]), f, PyNone)
  \/ \E t \in Threads, i \in 1..Len(SharedDirs) : ThreadFspath(t, i)
  \/ \E t \in Threads : ThreadDownloaderReturns(t)
  \/ \E t \in Threads : ThreadDownloaderRaises(t)
  \/ \E t \in Threads : ThreadFspathReturns(t)

SpecThreads == Init /\ [][NextThreads]_vars

\* decks of the worker with global rank 0
WorkerDecks ==
  {<<>>, <<Deck("TimeLineDeck", "Timeline")>>, <<Deck("TimeLineDeck", "Timeline"), Deck("Deck", "a")>>,
   <<Deck("Deck", "a"), Deck("TimeLineDeck", "Timeline"), Deck("MarkdownDeck", "b")>>}

\* results of elastic_launch: the local workers' global ranks are 0 and 1 on
\* the first node and 2 and 3 on the second; the worker of rank r returns 100 + r
LaunchResults ==
  {[r \in ranks |-> ElasticWorkerResult(100 + r, IF r = 0 THEN d ELSE <<Deck("Deck", "w")>>, om)] :
     ranks \in {{0}, {0, 1}, {2, 3}}, d \in WorkerDecks, om \in BOOLEAN}

\* elastic tasks are executed in one process, whose environment the user sets
NextElastic ==
  \/ \E v \in {"", "1", "4"} : SetEnv(v)
  \/ \E n \in {1, 2}, m \in {"spawn", "fork", "forkserver"} : ExecuteCall(n, m)
  \/ \E out \in LaunchResults : LaunchReturns(out)
  \/ \E e \in {Launch("ChildFailedError", <<>>, TRUE), Launch("ChildFailedError", <<>>, FALSE),
                 Launch("SignalException", <<>>, FALSE)} :
       LaunchRaises(e)

SpecElastic == Init /\ [][NextElastic]_vars

\* the triggers of deferrable operators, with what their __dict__ holds
Triggers ==
  {Trigger("DataprocSubmitTrigger", {"job_id", "region", "task_instance", "trigger_id"}),
   Trigger("BigQueryInsertJobTrigger", {"job_id", "trigger_id"}),
   Trigger("TimeDeltaTrigger", {"task_instance"}),
   Trigger("S3KeyTrigger", {"bucket_key"})}

\* Airflow tasks: operators whose execute returns, raises, or defers to a
\* trigger and names the method that takes the trigger's event (an operator
\* may name execute itself); a sensor; a hook
AirflowObjs ==
  {AirflowObj("operator", e, NoTrigger, "") : e \in {"returns", "raises"}}
  \cup {AirflowObj("operator", "defers", t, m) :
          t \in Triggers, m \in {"execute_complete", "execute"}}
  \cup {AirflowObj("sensor", "returns", NoTrigger, ""), AirflowObj("hook", "", NoTrigger, "")}

\* the connector's caller creates a task and polls it with get
NextAirflow ==
  \/ \E o \in AirflowObjs : Create(o)
  \/ \E poke \in {"True", "False", "raises"},
        event \in {"event", "TimeoutError", "AirflowException", "Exception"},
        callback \in {"returns", "AirflowException", "Exception"},
        text \in {"job failed", "quota exceeded"} : Get(poke, event, callback, text)
  \/ Delete

SpecAirflow == Init /\ [][NextAirflow]_vars

\* num_workers and worker.replicas: None, or a count from 0
ReplicaCounts == {NoInt, 0, 1, 2, 3}

\* PyTorch tasks are constructed and serialized
NextPyTorch ==
  \/ \E n \in ReplicaCounts, r \in ReplicaCounts, m \in BOOLEAN,
        sh \in {"None", "False", "True"} : PyTorchInitCall(n, r, m, sh)
  \/ GetCustomCall

SpecPyTorch == Init /\ [][NextPyTorch]_vars

(***************************************************************************)
(* Properties                                                              *)
(***************************************************************************)
Ids == 1..Len(handles)

\* the most recent call is to_literal on a handle / on a str or pathlib.Path
ToLiteralOnHandle == call.op = "to_literal" /\ call.arg.ty = "FlyteDirectory"
ToLiteralOnPath   == call.op = "to_literal" /\ call.arg.ty \in {"str", "Path"}

\* the handle the most recent call is about
Subject == handles[call.arg.h]

Returned == call.pc = "done" /\ call.outcome = "return"
Raised(err) == call.pc = "done" /\ call.outcome = "raise" /\ call.err = err

Puts == IoNamed(call.io, "put_data")

\* the call made exactly one put_data, a multipart one from `from` to `to`
OnePut(from, to) ==
  /\ Cardinality(Puts) = 1
  /\ \A k \in Puts : /\ call.io[k].a = from
                     /\ call.io[k].b = to
                     /\ call.io[k].is_multipart

\* C1, as stated: over any sequence of __fspath__ / download calls on one
\* handle the downloader is invoked at most once in total, and all calls
\* return the same path.
C1_InvokedAtMostOnce ==
  \A i \in Ids : obs[i].invoked <= 1 /\ Cardinality(obs[i].returned) <= 1

\* C1, amended: the downloader completes at most once and is never invoked
\* again once it has completed (a downloader that raised leaves the flag
\* false and is invoked again by the next call); the flag never goes back
\* from true to false; every call that returns returns the same path.
C1_DownloadedOnce ==
  [][\A i \in Ids :
       /\ obs'[i].completed <= 1
       /\ handles[i].downloaded =>
            /\ handles'[i].downloaded
            /\ obs'[i].invoked = obs[i].invoked
            /\ obs'[i].completed = obs[i].completed
       /\ handles'[i].downloaded <=> obs'[i].completed = 1
       /\ Cardinality(obs'[i].returned) <= 1
       /\ handles'[i].path = handles[i].path]_vars

\* a second call on a handle that downloads from remote storage returned
\* without invoking the downloader
C1_Witness ==
  /\ call.op = "__fspath__" /\ Returned /\ ~call.invoked
  /\ Subject.downloader.fn = "get_data"
  /\ obs[call.arg.h].invoked >= 1
  /\ call.ret_path = Subject.path

\* C2: to_literal on a handle whose _remote_source is set returns a literal
\* whose uri is that remote source, and calls neither put_data nor anything
\* else of the storage client, in either execution mode and whether or not
\* the handle has been downloaded.
C2_RemoteSourcePassthrough ==
  (ToLiteralOnHandle /\ Subject.remote_source # PyNone) =>
     /\ Returned
     /\ call.ret_lit.kind = "blob"
     /\ call.ret_lit.uri = Subject.remote_source.s
     /\ call.io = <<>>

\* a downloaded handle with a remote source was re-encoded in local execution
C2_Witness ==
  /\ ToLiteralOnHandle /\ Returned
  /\ Subject.remote_source = PyStr(RemoteSrc)
  /\ Subject.downloaded
  /\ call.local
  /\ call.ret_lit.uri = RemoteSrc

\* C3: to_literal on a handle whose remote_directory is False never calls
\* put_data, in either execution mode and also when its path is an existing
\* local directory; the literal's uri is the handle's path.
C3_NoUploadSentinel ==
  (ToLiteralOnHandle /\ Subject.remote_directory = PyFalse) =>
     /\ Returned
     /\ Puts = {}
     /\ call.ret_lit.uri = Subject.path.s

\* a user-made handle on a local directory with remote_directory=False was
\* encoded outside local execution
C3_Witness ==
  /\ ToLiteralOnHandle /\ Returned
  /\ Subject.remote_directory = PyFalse
  /\ Subject.path = PyStr(LocalDir) /\ LocalDir \in dirs
  /\ ~call.local
  /\ call.ret_lit.uri = LocalDir

\* remote_directory values that name a destination as a str or a pathlib.Path
ExplicitDestinations == {PyStr(RemoteDst), PyPath(LocalDest)}

\* C4, as stated: to_literal on a handle without remote source whose path is
\* remote never uploads and returns a literal whose uri is that path, for
\* every remote_directory and in either execution mode.
C4_RemotePathVerbatim ==
  ( /\ ToLiteralOnHandle
    /\ Subject.remote_source = PyNone
    /\ Subject.path.s.proto # "file"
    /\ Subject.remote_directory \in {PyNone, PyFalse} \cup ExplicitDestinations ) =>
     /\ Returned
     /\ Puts = {}
     /\ call.ret_lit.uri = Subject.path.s

C7_LocalExecutionNoUpload ==
  (ToLiteralOnPath /\ call.arg.s.proto = "file" /\ call.arg.s \in dirs /\ call.local) =>
     /\ Returned
     /\ Puts = {}
     /\ call.ret_lit.uri = call.arg.s

\* C7, amended: for a str or pathlib.Path the execution mode is not looked
\* at; also in local execution an existing local directory is uploaded by
\* one multipart put_data to a random remote directory, and the literal's
\* uri is what put_data returned, never the source path.
C7_LocalExecutionUploads ==
  (ToLiteralOnPath /\ call.arg.s.proto = "file" /\ call.arg.s \in dirs /\ call.local) =>
     /\ call.should_upload
     /\ OnePut(call.arg.s, RandomRemote)
     /\ call.pc = "await_put" \/ Returned \/ Raised("TransferFailure")
     /\ Returned => /\ call.ret_lit.uri = put_data_result(RandomRemote)
                    /\ call.ret_lit.uri # call.arg.s

\* a str on an existing directory was uploaded in local execution
C7_Witness ==
  /\ ToLiteralOnPath /\ Returned
  /\ call.arg = PyStr(LocalDir)
  /\ call.local
  /\ OnePut(LocalDir, RandomRemote)
  /\ call.ret_lit.uri = put_data_result(RandomRemote)

\* C8: a to_literal that decided to upload returns a literal only after its
\* put_data has ended successfully; while put_data is running there is no
\* result; when put_data raised, to_literal raises that failure, returns no
\* literal, and has called put_data once only.
C8_UploadBeforeLiteral ==
  call.op = "to_literal" =>
     /\ Cardinality(Puts) <= 1
     /\ (call.should_upload /\ Returned) =>
           \E k \in Puts : call.io[k].result = "ok"
     /\ \A k \in Puts :
           /\ call.io[k].result = "pending" =>
                 call.pc = "await_put" /\ call.outcome = "none" /\ call.ret_lit = NullLiteral
           /\ call.io[k].result = "raised" =>
                 Raised("TransferFailure") /\ call.ret_lit = NullLiteral
           /\ call.io[k].result = "ok" => Returned
     /\ call.ret_lit # NullLiteral => Returned

\* an upload failed and to_literal raised
C8_Witness ==
  /\ call.op = "to_literal" /\ call.should_upload
  /\ Raised("TransferFailure")
  /\ \E k \in Puts : call.io[k].result = "raised"

\* C9: to_python_value on a blob literal that is not MULTIPART raises the
\* type-transformer error, for a remote and for a local uri, and neither
\* creates a handle, nor asks for a local directory, nor transfers anything.
C9_DimensionalityEnforced ==
  [][(call'.op = "to_python_value" /\ call'.lit.kind = "blob"
        /\ call'.lit.dimensionality # "MULTIPART") =>
       /\ call'.pc = "done" /\ call'.outcome = "raise"
       /\ call'.err = "TypeTransformerFailedError"
       /\ call'.io = <<>>
       /\ call'.ret_h = 0
       /\ handles' = handles /\ nlocal' = nlocal /\ dirs' = dirs]_vars

\* a single-file blob with a remote uri was rejected
C9_Witness ==
  /\ call.op = "to_python_value"
  /\ call.lit = BlobLiteral(RemoteSrc, "", "SINGLE")
  /\ Raised("TypeTransformerFailedError")

\* C10: to_python_value on a MULTIPART blob with a remote uri calls no
\* get_data; the handle it returns is not downloaded, has the uri as remote
\* source and the random local directory it asked for as path, a path no
\* other handle has; the first __fspath__ on such a handle calls get_data
\* exactly once, from the uri to that path, multipart.
C10_LazyDecode ==
  /\ (call.op = "to_python_value" /\ call.lit.kind = "blob"
        /\ call.lit.dimensionality = "MULTIPART" /\ call.lit.uri.proto # "file") =>
       /\ Returned
       /\ Transfers(call.io) = {}
       /\ call.ret_h \in Ids
       /\ LET d == handles[call.ret_h]
          IN /\ ~d.downloaded
             /\ obs[call.ret_h].invoked = 0
             /\ d.remote_source = PyStr(call.lit.uri)
             /\ d.path.ty = "str"
             /\ d.path.s.proto = "file"
             /\ \E k \in IoNamed(call.io, "get_random_local_directory") : call.io[k].a = d.path.s
             /\ \A j \in Ids \ {call.ret_h} : handles[j].path # d.path
  /\ (call.op = "__fspath__" /\ Subject.remote_source # PyNone /\ call.invoked) =>
       /\ Len(call.io) = 1
       /\ call.io[1].fn = "get_data"
       /\ call.io[1].a = Subject.remote_source.s
       /\ call.io[1].b = Subject.path.s
       /\ call.io[1].is_multipart
  /\ (call.op = "__fspath__" /\ ~call.invoked) => call.io = <<>>

\* the first __fspath__ on a decoded remote handle has downloaded it
C10_Witness ==
  /\ call.op = "__fspath__" /\ Returned /\ call.invoked
  /\ Subject.remote_source = PyStr(RemoteSrc)
  /\ obs[call.arg.h].invoked = 1
  /\ Subject.downloaded
  /\ Subject.path.s \in dirs

\* the handle was made by to_python_value from a local uri
DecodedLocally(i) ==
  /\ obs[i].origin = "to_python_value"
  /\ handles[i].remote_source = PyNone

DecodedRemoteBlob ==
  /\ call.op = "to_python_value" /\ call.lit.kind = "blob"
  /\ call.lit.dimensionality = "MULTIPART" /\ call.lit.uri.proto # "file"

\* C12, as stated: the handle to_python_value returns for a remote MULTIPART
\* blob literal is of the subtype whose extension() is the format tag in
\* the literal's blob metadata.
C12_SubtypeOfLiteralFormat ==
  DecodedRemoteBlob =>
     /\ Returned
     /\ handles[call.ret_h].ext = call.lit.format

\* C12, amended: the handle is of the subtype whose extension() is that of
\* expected_python_type; the format tag in the literal's metadata is not
\* looked at, so the two agree only when the literal was declared with the
\* expected type's format.
C12_SubtypeOfExpectedType ==
  DecodedRemoteBlob =>
     /\ Returned
     /\ handles[call.ret_h].ext = call.ext
     /\ call.lit.format = call.ext <=> handles[call.ret_h].ext = call.lit.format

\* a remote literal tagged "csv" was decoded under the plain FlyteDirectory
\* type and under the "csv" subtype
C12_Witness ==
  /\ DecodedRemoteBlob /\ Returned
  /\ \/ call.lit.format = "csv" /\ call.ext = "" /\ handles[call.ret_h].ext = ""
     \/ call.lit.format = "" /\ call.ext = "csv" /\ handles[call.ret_h].ext = "csv"

\* C13: round trip of a local directory D that is uploaded.  When put_data
\* returns, the tree D has at that moment is at the uri of the literal that
\* to_literal returns.  Decoding that literal gives, for a remote uri, a
\* handle that is not downloaded and whose downloader reads from exactly
\* that uri into the handle's path (for a local uri, a handle on the uri).
\* When the download returns, the handle's path holds the same set of
\* (relative path, data) as the uri it read from.
C13_RoundTrip ==
  [][/\ (call.pc = "await_put" /\ call'.pc = "done" /\ call'.outcome = "return") =>
          /\ call'.ret_lit.uri = put_data_result(call.io[Len(call.io)].b)
          /\ call'.ret_lit.uri \in DOMAIN store'
          /\ store'[call'.ret_lit.uri] = store[call.source_path]
          /\ store'[call.source_path] = store[call.source_path]
     /\ (call.op = "to_literal" /\ call.should_upload /\ call.outcome = "return"
           /\ call'.op = "to_python_value" /\ call'.lit = call.ret_lit) =>
          /\ call'.outcome = "return"
          /\ call'.ret_h = Len(handles) + 1
          /\ LET d == handles'[call'.ret_h]
             IN IF call.ret_lit.uri.proto = "file"
                THEN d.path = PyStr(call.ret_lit.uri) /\ d.downloader = noop
                ELSE /\ ~d.downloaded
                     /\ d.remote_source = PyStr(call.ret_lit.uri)
                     /\ d.downloader.fn = "get_data"
                     /\ d.downloader.src = call.ret_lit.uri
                     /\ d.downloader.dst = d.path.s
                     /\ d.downloader.is_multipart
                     /\ d.path.s \notin DOMAIN store
          /\ store' = store
     /\ (call.pc = "await_download" /\ call'.pc = "done" /\ call'.outcome = "return"
           /\ handles[call.arg.h].remote_source # PyNone) =>
          LET d == handles[call.arg.h]
          IN /\ call.io[1].fn = "get_data"
             /\ call.io[1].a = d.remote_source.s
             /\ call'.ret_path = d.path
             /\ d.remote_source.s \in DOMAIN store
             /\ d.path.s \in DOMAIN store'
             /\ store'[d.path.s] = store[d.remote_source.s]]_vars

\* D was uploaded, its literal decoded, D rewritten by user code, and the
\* decoded handle materialised: its path holds what D held when uploaded
C13_Witness ==
  /\ call.op = "__fspath__" /\ Returned /\ call.invoked
  /\ obs[call.arg.h].origin = "to_python_value"
  /\ Subject.remote_source = PyStr(put_data_result(RandomRemote))
  /\ Subject.path.s \in DOMAIN store
  /\ store[Subject.path.s] = TreeD
  /\ store[LocalDir] = TreeD2

\* the handle was returned by listdir for an entry of a remote path
ListedRemotely(i) == obs[i].origin = "listdir" /\ handles[i].remote_source # PyNone

\* the handle was returned by listdir for an entry of a local path
ListedLocally(i) == obs[i].origin = "listdir" /\ handles[i].remote_source = PyNone

\* the names directly inside the tree at path p
ChildNames(p) == FileNames(TreeAt(p)) \cup SubdirNames(TreeAt(p))

RECURSIVE RelText(_)
RelText(rel) == IF Len(rel) <= 1 THEN rel ELSE <<Head(rel), "/">> \o RelText(Tail(rel))

\* the files of the tree at p that a walk of the given depth reports
Walked(p, maxdepth) ==
  IF ~HasTree(p) THEN {}
  ELSE {f \in TreeAt(p) : maxdepth = 1 => Len(f.rel) = 1}

\* C16: crawl transfers nothing (no get_data, no put_data) and changes no
\* handle, so downloaded stays as it was; it walks the effective path
\* (remote source, else remote_directory, else path) and yields, for each
\* file the walk reports, exactly one pair of that effective path and the
\* file's path relative to it ("a.txt", "sub/b.txt"); a crawl that directly
\* follows a crawl of the same handle with the same depth yields the same
\* sequence.
C16_CrawlYieldsRelativePaths ==
  [][/\ call'.op = "crawl" =>
          LET d     == handles[call'.arg.h]
              files == Walked(Str(call'.final_path), call'.maxdepth)
          IN /\ call'.outcome = "return"
             /\ Transfers(call'.io) = {}
             /\ handles' = handles /\ obs' = obs /\ store' = store /\ dirs' = dirs
             /\ d.remote_directory # PyStr(EmptyStr) =>
                  call'.final_path = IF d.remote_source # PyNone THEN d.remote_source
                                     ELSE IF d.remote_directory \notin {PyNone, PyFalse}
                                          THEN d.remote_directory
                                     ELSE d.path
             /\ Len(call'.yielded) = Cardinality(files)
             /\ {call'.yielded[k].rel : k \in 1..Len(call'.yielded)}
                  = {RelText(f.rel) : f \in files}
             /\ \A k \in 1..Len(call'.yielded) : call'.yielded[k].base = call'.final_path
     /\ (call.op = "crawl" /\ call'.op = "crawl" /\ call'.arg = call.arg
           /\ call'.maxdepth = call.maxdepth) =>
          call'.yielded = call.yielded]_vars

\* a decoded remote handle that is not downloaded was crawled to full depth:
\* two pairs, for a.txt and sub/b.txt, both with the remote source as base
C16_Witness ==
  /\ call.op = "crawl" /\ Returned /\ call.maxdepth = 0
  /\ Subject.remote_source = PyStr(RemoteSrc) /\ ~Subject.downloaded
  /\ Len(call.yielded) = 2
  /\ \E k \in 1..2 : call.yielded[k] = [base |-> PyStr(RemoteSrc), rel |-> <<"sub", "/", "b.txt">>]
  /\ \E k \in 1..2 : call.yielded[k] = [base |-> PyStr(RemoteSrc), rel |-> <<"a.txt">>]

\* C17: new(dirname) with an absolute name raises ValueError and creates
\* nothing; with a relative name it creates <working_directory>/<dirname>
\* when nothing exists there and returns a handle with exactly that path;
\* when the path exists already, as after a first call with the same name,
\* it raises FileExistsError and leaves the filesystem and the handles as
\* they were.
C17_NewCreatesOnce ==
  [][call'.op = "new" =>
       LET path == Join(WorkDir, call'.dirname.text)
       IN IF call'.dirname.isabs
          THEN /\ call'.outcome = "raise" /\ call'.err = "ValueError"
               /\ dirs' = dirs /\ store' = store /\ handles' = handles
               /\ call'.io = <<>>
          ELSE IF path \in dirs \/ FileAt(path)
          THEN /\ call'.outcome = "raise" /\ call'.err = "FileExistsError"
               /\ dirs' = dirs /\ store' = store /\ handles' = handles
          ELSE /\ call'.outcome = "return"
               /\ dirs' = dirs \cup {path}
               /\ path \in DOMAIN store' /\ store'[path] = {}
               /\ \A q \in DOMAIN store : q \in DOMAIN store' /\ store'[q] = store[q]
               /\ Len(handles') = Len(handles) + 1
               /\ call'.ret_h = Len(handles')
               /\ handles'[call'.ret_h].path = PyStr(path)
               /\ handles'[call'.ret_h].remote_source = PyNone
               /\ \A j \in 1..Len(handles) : handles'[j] = handles[j]]_vars

\* a second new("out") failed: the directory and handle of the first exist
C17_Witness ==
  /\ call.op = "new" /\ Raised("FileExistsError")
  /\ call.dirname = DirName("out", FALSE)
  /\ Join(WorkDir, "out") \in dirs
  /\ \E j \in Ids : obs[j].origin = "new" /\ handles[j].path = PyStr(Join(WorkDir, "out"))

\* the most recent to_python_value has done what decoding a MULTIPART blob
\* literal with this uri does
DecodedLikeBlob(uri) ==
  IF uri.proto # "file"
  THEN /\ Returned
       /\ call.ret_h \in Ids
       /\ LET d == handles[call.ret_h]
          IN /\ d.remote_source = PyStr(uri)
             /\ ~d.downloaded
             /\ d.downloader = GetDataPartial(uri, d.path.s, TRUE)
             /\ d.remote_directory = PyNone
             /\ d.ext = call.ext
             /\ \E k \in IoNamed(call.io, "get_random_local_directory") : call.io[k].a = d.path.s
  ELSE IF uri \in dirs
  THEN /\ Returned
       /\ call.ret_h \in Ids
       /\ LET d == handles[call.ret_h]
          IN /\ d.path = PyStr(uri)
             /\ d.remote_directory = PyFalse
             /\ d.remote_source = PyNone
             /\ d.downloader = noop
             /\ d.ext = call.ext
       /\ call.io = <<>>
  ELSE Raised("FlyteAssertion") /\ call.ret_h = 0

C19_DownloadRaises ==
  (call.op = "__fspath__" /\ call.pc = "done" /\ DecodedLocally(call.arg.h)) =>
     call.outcome = "raise"

\* C20, as the documentation of from_source states it: the handle that
\* from_source(source) returns has the given source as remote source, for a
\* remote uri and for a local directory.
C20_RemoteSourceIsSource ==
  (call.op = "from_source" /\ Returned) =>
     handles[call.ret_h].remote_source = PyStr(call.lit.uri)

\* thread t's last __fspath__ call invoked the downloader and has returned
ThreadReturnedAfterTrigger(t) ==
  /\ threads[t].pc = "done" /\ threads[t].outcome = "return"
  /\ threads[t].invoked

\* the handle's downloader has fetched its source into its destination
Fetched(d) ==
  d.downloader.fn = "get_data" =>
    /\ HasTree(d.downloader.dst)
    /\ TreeAt(d.downloader.dst) = TreeAt(d.downloader.src)

\* C21: once __fspath__ has invoked the downloader, the call sets the flag
\* and returns only after the downloader has run to its end, be it a function,
\* a coroutine function or a functools.partial of either: a thread that is
\* past the downloader, or has returned after invoking it, has run the
\* downloader's body, and then what the downloader fetches is at its
\* destination; a flag that is set means a completed run of the downloader.
C21_TriggerRunsToCompletion ==
  /\ \A t \in Threads :
       (threads[t].pc = "after_downloader" \/ ThreadReturnedAfterTrigger(t)) =>
          /\ threads[t].ran
          /\ Fetched(handles[threads[t].h])
  /\ \A t \in Threads :
       ThreadReturnedAfterTrigger(t) =>
          /\ handles[threads[t].h].downloaded
          /\ threads[t].ret_path = handles[threads[t].h].path
  /\ \A i \in Ids : handles[i].downloaded => obs[i].completed >= 1

\* a call returned after driving a partial of a coroutine function to its end
C21_Witness ==
  \E t \in Threads :
    /\ ThreadReturnedAfterTrigger(t)
    /\ handles[threads[t].h].downloader.coroutine
    /\ handles[threads[t].h].downloader.partial
    /\ threads[t].ran
    /\ handles[threads[t].h].downloaded
    /\ TreeAt(handles[threads[t].h].path.s) = TreeX

\* C22: __fspath__ calls of several threads on one handle are not serialised,
\* the test of the flag and its assignment being separate steps: the
\* downloader is invoked in any call that finds the flag false, also while
\* another thread's invocation on the same handle is still running (the
\* witness is the interleaving that invokes it twice).  Calls on distinct
\* handles do not interfere: a step of a thread's call changes the fields
\* and the invocation record of the handle it is called on, and of no other.
C22_DistinctHandlesIndependent ==
  [][\A t \in Threads :
       threads'[t] # threads[t] =>
          /\ \A j \in Ids \ {threads'[t].h} :
                handles'[j] = handles[j] /\ obs'[j] = obs[j]
          /\ obs'[threads'[t].h].invoked > obs[threads'[t].h].invoked <=>
                /\ threads[t].pc \in {"idle", "done"}
                /\ ~handles[threads'[t].h].downloaded]_vars

\* two threads were inside the downloader of one handle at once and both
\* ran it to its end, no call having raised, while a second handle was left
\* untouched
C22_Witness ==
  \E i \in Ids, j \in Ids :
    /\ i # j
    /\ \A t \in Threads : ThreadReturnedAfterTrigger(t) /\ threads[t].h = i
                          /\ ~threads[t].after_raise
    /\ obs[i].invoked = 2 /\ obs[i].completed = 2
    /\ handles[i].downloaded
    /\ obs[j].invoked = 0 /\ ~handles[j].downloaded

\* C27: when the downloader raises inside __fspath__, the exception reaches
\* the caller and the handle is left as it was: the step in which a call
\* ends in the exception changes no field of any handle (the flag is not
\* set, the path is the same).  A call made after that on the same handle,
\* its flag still being false, invokes the downloader again.
C27_RaiseLeavesHandle ==
  [][\A t \in Threads :
       threads'[t] # threads[t] =>
          /\ (threads'[t].pc = "done" /\ threads'[t].outcome = "raise") =>
                /\ threads[t].pc = "in_downloader"
                /\ threads'[t].err = "TransferFailure"
                /\ threads'[t].ret_path = PyNone
                /\ handles' = handles
          /\ ( /\ threads[t].pc \in {"idle", "done"}
               /\ threads'[t].after_raise
               /\ ~handles[threads'[t].h].downloaded ) =>
                /\ threads'[t].invoked
                /\ threads'[t].pc = "in_downloader"]_vars

\* one thread alone: its call raised, the flag stayed false, and its next
\* call on the handle invoked the downloader again and returned the path
C27_Witness ==
  \E t \in Threads :
    /\ \A u \in Threads \ {t} : threads[u].pc = "idle"
    /\ ThreadReturnedAfterTrigger(t)
    /\ threads[t].after_raise /\ threads[t].ran
    /\ obs[threads[t].h].invoked = 2 /\ obs[threads[t].h].completed = 1
    /\ threads[t].ret_path = handles[threads[t].h].path

\* C23: an execution of the elastic task leaves OMP_NUM_THREADS at the value
\* it had when it was set before, and at "1" when it was not set.
C23_OmpSetWhenUnset ==
  call.op = "_execute" =>
     /\ DOMAIN call.env_after = DOMAIN call.env_before \cup {"OMP_NUM_THREADS"}
     /\ call.env_after["OMP_NUM_THREADS"] =
          IF "OMP_NUM_THREADS" \in DOMAIN call.env_before
          THEN call.env_before["OMP_NUM_THREADS"]
          ELSE "1"

\* an _execute call has ended
Executed == call.op = "_execute" /\ call.pc = "done"

\* C30: how _execute ends.  A start method other than "spawn" and "fork"
\* raises ValueError and elastic_launch is not called.  Otherwise, when the
\* launch returns a result for global rank 0, _execute returns that worker's
\* return value, having appended that worker's decks other than the timeline
\* deck, in order, to the parent's decks; when the launch returns without
\* rank 0, it raises IgnoreOutputs and appends no deck; when a child failed,
\* it raises FlyteRecoverableException if the first failure is recoverable
\* and FlyteUserRuntimeException if not; on SignalException it raises
\* IgnoreOutputs.
C30_ExecuteOutcome ==
  /\ (call.op = "_execute" /\ call.start_method \notin {"spawn", "fork"}) =>
        /\ Raised("ValueError")
        /\ call.entrypoint = "" /\ call.launch = Launch("none", <<>>, FALSE)
  /\ (call.op = "_execute" /\ call.pc = "await_launch") =>
        /\ call.start_method \in {"spawn", "fork"}
        /\ call.entrypoint = (IF call.start_method = "spawn" THEN "spawn_helper"
                                                            ELSE "fn_partial")
  /\ (Executed /\ call.launch.kind = "out") =>
        IF 0 \in DOMAIN call.launch.out
        THEN /\ Returned
             /\ call.ret = call.launch.out[0].return_value
             /\ Len(call.decks) <= Len(call.launch.out[0].decks)
             /\ \A k \in 1..Len(call.decks) : call.decks[k].cls # "TimeLineDeck"
             /\ \A d \in {call.launch.out[0].decks[k] : k \in 1..Len(call.launch.out[0].decks)} :
                   d.cls # "TimeLineDeck" => \E k \in 1..Len(call.decks) : call.decks[k] = d
             /\ \A k \in 1..Len(call.decks) :
                   \E m \in 1..Len(call.launch.out[0].decks) :
                      call.launch.out[0].decks[m] = call.decks[k]
        ELSE Raised("IgnoreOutputs") /\ call.decks = <<>> /\ call.ret = -1
  /\ (Executed /\ call.launch.kind = "ChildFailedError") =>
        /\ Raised(IF call.launch.recoverable THEN "FlyteRecoverableException"
                                             ELSE "FlyteUserRuntimeException")
        /\ call.decks = <<>> /\ call.ret = -1
  /\ (Executed /\ call.launch.kind = "SignalException") =>
        Raised("IgnoreOutputs") /\ call.decks = <<>> /\ call.ret = -1

\* a launch on the first node returned: rank 0's value is returned and, of its
\* three decks, the two that are not the timeline deck were passed on
C30_Witness ==
  /\ Executed /\ Returned
  /\ DOMAIN call.launch.out = {0, 1}
  /\ call.ret = 100
  /\ Len(call.launch.out[0].decks) = 3
  /\ call.decks = <<Deck("Deck", "a"), Deck("MarkdownDeck", "b")>>

\* what create does with the task: a non-sensor operator's execute is called
\* once; the metadata returned names the task, and the trigger and callback
\* of the deferral if execute deferred
CreateAsStated ==
  call.op = "create" =>
     /\ call.calls = IF call.obj.kind = "operator" THEN <<"execute">> ELSE <<>>
     /\ Returned <=> ~(call.obj.kind = "operator" /\ call.obj.execute = "raises")
     /\ Returned =>
          /\ call.meta = resource_meta
          /\ call.meta.airflow_operator = call.obj
          /\ IF call.obj.kind = "operator" /\ call.obj.execute = "defers"
             THEN /\ call.meta.airflow_trigger.name = call.obj.trigger.name
                  /\ call.meta.airflow_trigger.parameters =
                       {n \in call.obj.trigger.parameters :
                          n # "task_instance" /\ n # "trigger_id"}
                  /\ call.meta.airflow_trigger_callback = call.obj.method_name
             ELSE /\ call.meta.airflow_trigger = NoTrigger
                  /\ call.meta.airflow_trigger_callback = ""

\* C24, as stated: create calls execute exactly once for a non-sensor operator
\* and calls nothing for a sensor; get never calls execute; the metadata
\* carries the trigger, without task_instance and trigger_id, and the callback
\* name exactly when execute raised TaskDeferred.
C24_GetNeverExecutes ==
  /\ CreateAsStated
  /\ call.op = "get" => \A k \in 1..Len(call.calls) : call.calls[k] # "execute"

\* C24, amended: as stated, except that get does call a method of the
\* operator, namely the callback that the deferral named, after the trigger
\* gave an event: get calls poke on a sensor and nothing else; on an operator
\* with a stored trigger it runs the trigger and, if an event came, calls the
\* stored callback once, which is execute when the operator deferred to
\* execute; on an operator without trigger it calls nothing.
C24_GetCallsStoredCallback ==
  /\ CreateAsStated
  /\ call.op = "get" =>
       call.calls =
         CASE call.obj.kind = "sensor" -> <<"poke">>
           [] call.obj.kind = "operator" /\ resource_meta.airflow_trigger # NoTrigger ->
                IF call.event = "event"
                THEN <<"run", resource_meta.airflow_trigger_callback>>
                ELSE <<"run">>
           [] OTHER -> <<>>

\* an operator deferred to a Dataproc trigger: the stored trigger has lost
\* task_instance and trigger_id, and a later get called the callback
C24_Witness ==
  /\ call.op = "get" /\ Returned
  /\ call.obj.trigger.parameters = {"job_id", "region", "task_instance", "trigger_id"}
  /\ resource_meta.airflow_trigger.parameters = {"job_id", "region"}
  /\ call.calls = <<"run", "execute_complete">>

C28_AcceptedValuesHandled ==
  (call.op = "to_literal" /\ assert_type(call.arg) = "return") =>
     ~Raised("AssertionError")

\* C29: constructing a PyTorchFunctionTask succeeds exactly when one of
\* num_workers and worker.replicas is specified and the other is not; with
\* both, and with neither, it raises ValueError; the serialized job's worker
\* replica count is the one that was specified, the master's is 1.
C29_ExactlyOneSpecified ==
  /\ call.op = "PyTorchFunctionTask.__init__" =>
        /\ Returned <=> ((call.num_workers # NoInt) # (call.replicas # NoInt))
        /\ ~Returned => Raised("ValueError")
  /\ call.op = "get_custom" =>
        /\ call.worker_replicas =
             (IF call.num_workers # NoInt THEN call.num_workers ELSE call.replicas)
        /\ call.master_replicas = 1

====
